---- MODULE Spec2Model ----
(***************************************************************************)
(* A model of the SiteScraper content pipeline: the deduplicator of        *)
(* pipeline/processor.py, the SEO validator of rewriter/seo.py, and the    *)
(* rewriting engine of rewriter/engine.py with rewriter/templates.py.      *)
(*                                                                         *)
(* Strings whose characters the code inspects (titles, bodies, keywords)   *)
(* are sequences of one-character strings; strings the code only compares *)
(* for equality and emptiness (urls) are TLA+ strings.  Python floats are  *)
(* IEEE 754 binary64 values, modelled bit for bit (53-bit significand,     *)
(* round-half-to-even), because the code truncates and compares them.      *)
(***************************************************************************)
EXTENDS Integers, Sequences, FiniteSets, TLC

VARIABLES
  \* PipelineProcessor.deduplicate
  articles,   \* the argument of the running call
  unique,     \* its list of accepted records
  pos,        \* the position of the for loop in articles
  keptIdx,    \* history: the positions of articles appended to unique
  dpc,        \* "loop" while the for loop runs, "done" once the call returned
  calls,      \* history: [arg, result] of every call that returned
  \* SEOValidator.validate
  title,             \* argument
  meta_description,  \* argument
  body,              \* argument
  keywords,          \* argument: None or a list
  issues,            \* the issues list
  total_points,
  max_points,
  awarded,    \* history: the points each evaluated criterion added
  spc,        \* the criterion validate is about to evaluate, then "done"
  result,     \* the SEOResult returned
  reports,    \* history: the arguments, points and SEOResult of every call
  \* _title_similarity and _is_duplicate on two titles
  sa,         \* a title
  sb,         \* another title
  sims,       \* history: [a, b, ratio, dup] of every comparison made
  \* RewriterEngine.rewrite and rewrite_and_save
  content_type,  \* argument
  kwarg,         \* argument keywords: None or a list
  save,          \* TRUE for rewrite_and_save, FALSE for rewrite
  epc,        \* the step the engine is about to take, "done", or "raised"
  template,   \* the template get_template returned
  kwlist,     \* the local keywords: the argument and the defaults
  requests,   \* history: the template of every request sent to the LLM
  response,   \* the text of the LLM's response
  files,      \* the files written: [path, text]
  outcome,    \* what the call returned or raised
  \* PipelineProcessor.run and process_article
  raw,        \* the articles load_raw_articles returns
  deduped,    \* the list deduplicate returned
  ppos,       \* the position of run's for loop in deduped
  ppc,        \* the step run is about to take, then "done"
  pcur,       \* the article being rewritten: the engine's locals
  plog,       \* history: the steps taken, <<step, position>>
  preturns,   \* history: what process_article returned, call by call
  presults,   \* run's list results
  pfiles,     \* the files written: [path, text]
  poutcome,   \* what run returned
  \* main.run_rewriter
  msites,     \* the site directories of the raw directory, sorted
  msi,        \* the position of the loop over the sites
  mai,        \* the position of the loop over the site's articles
  mpc,        \* the step run_rewriter is about to take, then "done"
  mcur,       \* the article being rewritten: the engine's locals
  mlog,       \* history: the steps taken, <<step, site, article>>
  mfiles,     \* the files written: [path, text]
  mwritten,   \* history: the path of every file written
  mfailed,    \* history: the sites logger.exception was called for
  \* Manifest, FilePublisher and WebflowPublisher
  manifest,   \* the articles of each manifest file, by its path
  truncated,  \* whether the manifest file is open for writing, and empty
  pubfiles,   \* the HTML and RSS files written
  apiCalls,   \* history: [slug, status] of every POST to the Webflow API
  task,       \* the calls that run: their arguments, locals and position
  pcalls,     \* history: the calls that are over
  \* BaseScraper
  robots,             \* _robot_parser
  last_request_time,  \* _last_request_time
  clock,      \* the time of the event loop
  fpc,        \* the step fetch is about to take, "idle" between calls
  fcur,       \* the fetch that runs: its arguments and locals
  fcalls,     \* history: the fetches that are over
  fetched     \* history: [kind, url] of every request made

dedupVars == <<articles, unique, pos, keptIdx, dpc, calls>>

seoVars == <<title, meta_description, body, keywords, issues, total_points,
             max_points, awarded, spc, result, reports>>

simVars == <<sa, sb, sims>>

engineVars == <<content_type, kwarg, save, epc, template, kwlist, requests,
                response, files, outcome>>

pipeVars == <<raw, deduped, ppos, ppc, pcur, plog, preturns, presults, pfiles,
              poutcome>>

mainVars == <<msites, msi, mai, mpc, mcur, mlog, mfiles, mwritten, mfailed>>

pubVars == <<manifest, truncated, pubfiles, apiCalls, task, pcalls>>

scraperVars == <<robots, last_request_time, clock, fpc, fcur, fcalls, fetched>>

\* The callers of the core, and the publishers.
orchVars == <<pipeVars, mainVars, pubVars>>

vars == <<articles, unique, pos, keptIdx, dpc, calls, title, meta_description,
          body, keywords, issues, total_points, max_points, awarded, spc,
          result, reports, sa, sb, sims, content_type, kwarg, save, epc,
          template, kwlist, requests, response, files, outcome, raw, deduped,
          ppos, ppc, pcur, plog, preturns, presults, pfiles, poutcome, msites,
          msi, mai, mpc, mcur, mlog, mfiles, mwritten, mfailed, manifest,
          truncated, pubfiles, apiCalls, task, pcalls, robots,
          last_request_time, clock, fpc, fcur, fcalls, fetched>>

(***************************************************************************)
(* Generic helpers.                                                        *)
(***************************************************************************)
Min(a, b) == IF a <= b THEN a ELSE b

Rep(c, n) == [k \in 1..n |-> c]

Range(s) == {s[k] : k \in 1..Len(s)}

\* dict.get(key, default) on a dict modelled as a function from its keys.
Get(d, key, default) == IF key \in DOMAIN d THEN d[key] ELSE default

(***************************************************************************)
(* IEEE 754 binary64 arithmetic on non-negative values.                    *)
(* A float is zero or [exp |-> e, man |-> m], m a sequence of MantBits     *)
(* bits, most significant first, m[1] = 1, of value (m[1].m[2]...) * 2^e.  *)
(***************************************************************************)
MantBits == 53

FloatZero == [exp |-> 0, man |-> <<>>]

IsZero(x) == x.man = <<>>

\* The value of a bit sequence, most significant bit first (below 2^31).
RECURSIVE BitsValue(_)
BitsValue(bits) ==
  IF bits = <<>> THEN 0
  ELSE IF Len(bits) = 1 THEN bits[1]
  ELSE LET n == Len(bits)
           h == n \div 2
       IN  BitsValue(SubSeq(bits, 1, h)) * 2 ^ (n - h)
             + BitsValue(SubSeq(bits, h + 1, n))

\* The n-bit representation of v, most significant bit first.
ToBits(v, n) == [k \in 1..n |-> (v \div 2 ^ (n - k)) % 2]

\* bits without its leading zeros.
StripZeros(bits) ==
  IF \A k \in 1..Len(bits) : bits[k] = 0 THEN <<>>
  ELSE LET p == CHOOSE k \in 1..Len(bits) :
                  bits[k] = 1 /\ \A j \in 1..(k - 1) : bits[j] = 0
       IN  SubSeq(bits, p, Len(bits))

\* Long division, eight bits at a time: n further quotient bits of r/b
\* (0 <= r < b < 2^23), and the remainder left.
RECURSIVE GenBits(_, _, _)
GenBits(r, b, n) ==
  IF n = 0 THEN << <<>>, r >>
  ELSE LET c    == Min(n, 8)
           q    == (r * 2 ^ c) \div b
           rest == GenBits((r * 2 ^ c) % b, b, n - c)
       IN  << ToBits(q, c) \o rest[1], rest[2] >>

\* bits + 1 on a bit sequence; the result is one bit longer on overflow.
BitsInc(bits) ==
  IF \A k \in 1..Len(bits) : bits[k] = 1 THEN <<1>> \o Rep(0, Len(bits))
  ELSE LET p == CHOOSE k \in 1..Len(bits) :
                  bits[k] = 0 /\ \A j \in (k + 1)..Len(bits) : bits[j] = 1
       IN  [k \in 1..Len(bits) |->
              IF k < p THEN bits[k] ELSE IF k = p THEN 1 ELSE 0]

\* Round an exact significand (leading bit 1, at least MantBits bits, with
\* a flag for non-zero bits beyond it) to MantBits bits, ties to even.
RoundNearestEven(e, bits, sticky) ==
  LET kept   == SubSeq(bits, 1, MantBits)
      rnd    == IF Len(bits) > MantBits THEN bits[MantBits + 1] ELSE 0
      low    == sticky \/ \E k \in (MantBits + 2)..Len(bits) : bits[k] = 1
      up     == rnd = 1 /\ (low \/ kept[MantBits] = 1)
      inc    == BitsInc(kept)
  IN  IF ~up THEN [exp |-> e, man |-> kept]
      ELSE IF Len(inc) > MantBits
           THEN [exp |-> e + 1, man |-> SubSeq(inc, 1, MantBits)]
           ELSE [exp |-> e, man |-> inc]

\* Scale a/b into [1, 2): the exponent e with 2^e <= a/b < 2^(e+1) and the
\* scaled pair.
RECURSIVE Normalize(_, _, _)
Normalize(a, b, e) ==
  IF a < b THEN Normalize(2 * a, b, e - 1)
  ELSE IF a >= 2 * b THEN Normalize(a, 2 * b, e + 1)
  ELSE <<a, b, e>>

\* The correctly rounded quotient a / b of two integers (Python's int / int,
\* and float / int when the float is an exact integer): a >= 0, b > 0.
FloatDiv(a, b) ==
  IF a = 0 THEN FloatZero
  ELSE LET nrm == Normalize(a, b, 0)
           gen == GenBits(nrm[1] - nrm[2], nrm[2], MantBits)
       IN  RoundNearestEven(nrm[3], <<1>> \o gen[1], gen[2] # 0)

\* bits (most significant first) times the small integer c < 2^8, exactly,
\* sixteen bits at a time from the least significant end.
RECURSIVE MulLimbs(_, _, _)
MulLimbs(bits, c, carry) ==
  IF bits = <<>> THEN ToBits(carry, 8)
  ELSE LET n == Len(bits)
           k == Min(n, 16)
           v == BitsValue(SubSeq(bits, n - k + 1, n)) * c + carry
       IN  MulLimbs(SubSeq(bits, 1, n - k), c, v \div 2 ^ k) \o ToBits(v % 2 ^ k, k)

BitsTimes(bits, c) == StripZeros(MulLimbs(bits, c, 0))

\* The correctly rounded product x * c of a float and a small integer c > 0.
FloatMul(x, c) ==
  IF IsZero(x) THEN FloatZero
  ELSE LET prod == BitsTimes(x.man, c)
       IN  RoundNearestEven(x.exp + (Len(prod) - MantBits), prod, FALSE)

\* int(x): truncation toward zero, for x < 2^MantBits.
FloatTrunc(x) ==
  IF IsZero(x) \/ x.exp < 0 THEN 0
  ELSE BitsValue(SubSeq(x.man, 1, x.exp + 1))

\* The first position where two equally long bit sequences differ, 0 if none.
FirstDiff(m1, m2) ==
  IF m1 = m2 THEN 0
  ELSE CHOOSE k \in 1..Len(m1) :
         m1[k] # m2[k] /\ \A j \in 1..(k - 1) : m1[j] = m2[j]

\* x >= y on floats.
FloatGe(x, y) ==
  IF IsZero(y) THEN TRUE
  ELSE IF IsZero(x) THEN FALSE
  ELSE IF x.exp # y.exp THEN x.exp > y.exp
  ELSE LET k == FirstDiff(x.man, y.man)
       IN  k = 0 \/ x.man[k] = 1

(***************************************************************************)
(* str.lower() on the ASCII letters.                                       *)
(***************************************************************************)
UpperCase == << "A", "B", "C", "D", "E", "F", "G", "H", "I", "J", "K", "L", "M",
               "N", "O", "P", "Q", "R", "S", "T", "U", "V", "W", "X", "Y", "Z" >>

LowerCase == << "a", "b", "c", "d", "e", "f", "g", "h", "i", "j", "k", "l", "m",
               "n", "o", "p", "q", "r", "s", "t", "u", "v", "w", "x", "y", "z" >>

LowerChar(c) ==
  IF \E k \in 1..Len(UpperCase) : UpperCase[k] = c
  THEN LowerCase[CHOOSE k \in 1..Len(UpperCase) : UpperCase[k] = c]
  ELSE c

lower(s) == [k \in 1..Len(s) |-> LowerChar(s[k])]

(***************************************************************************)
(* difflib.SequenceMatcher(None, a, b).ratio(), for sequences shorter than *)
(* the 200 elements at which its autojunk heuristic starts: no element is  *)
(* junk.  Positions are 1-based, ranges half open as in the library.       *)
(***************************************************************************)
\* The length of the longest common run of a from i and b from j.
RunLength(a, b, i, j, ahi, bhi) ==
  LET m == Min(ahi - i, bhi - j)
  IN  CHOOSE k \in 0..m :
        /\ \A t \in 0..(k - 1) : a[i + t] = b[j + t]
        /\ k = m \/ a[i + k] # b[j + k]

\* find_longest_match: the longest block a[i..i+size) = b[j..j+size) inside
\* a[alo..ahi) and b[blo..bhi); of the longest blocks the one starting
\* earliest in a, and of those the one starting earliest in b.
find_longest_match(a, b, alo, ahi, blo, bhi) ==
  LET runs  == {<<i, j, RunLength(a, b, i, j, ahi, bhi)>> :
                  i \in alo..(ahi - 1), j \in blo..(bhi - 1)}
      sizes == {t[3] : t \in runs} \cup {0}
      best  == CHOOSE k \in sizes : \A m \in sizes : m <= k
      cand  == {t \in runs : t[3] = best}
      besti == CHOOSE i \in {t[1] : t \in cand} : \A t \in cand : i <= t[1]
      bestj == CHOOSE j \in {t[2] : t \in {u \in cand : u[1] = besti}} :
                 \A t \in cand : t[1] = besti => j <= t[2]
  IN  IF best = 0 THEN [i |-> alo, j |-> blo, size |-> 0]
      ELSE [i |-> besti, j |-> bestj, size |-> best]

\* The total size of get_matching_blocks: the longest match, then the same
\* on both sides of it.
RECURSIVE MatchCount(_, _, _, _, _, _)
MatchCount(a, b, alo, ahi, blo, bhi) ==
  LET m == find_longest_match(a, b, alo, ahi, blo, bhi)
  IN  IF m.size = 0 THEN 0
      ELSE m.size
           + (IF alo < m.i /\ blo < m.j
              THEN MatchCount(a, b, alo, m.i, blo, m.j) ELSE 0)
           + (IF m.i + m.size < ahi /\ m.j + m.size < bhi
              THEN MatchCount(a, b, m.i + m.size, ahi, m.j + m.size, bhi) ELSE 0)

\* _calculate_ratio: 2.0 * matches / length, and 1.0 for two empty sequences.
ratio(a, b) ==
  LET matches == MatchCount(a, b, 1, Len(a) + 1, 1, Len(b) + 1)
      length  == Len(a) + Len(b)
  IN  IF length > 0 THEN FloatDiv(2 * matches, length) ELSE FloatDiv(1, 1)

(***************************************************************************)
(* rewriter/seo.py: SEOValidator.validate.                                 *)
(***************************************************************************)
TITLE_MIN_LEN == 30
TITLE_MAX_LEN == 70
META_MIN_LEN == 120
META_MAX_LEN == 170
MIN_H2_COUNT == 2
MIN_WORD_COUNT == 500
PASS_THRESHOLD == 70

\* The characters str.split() separates words at.
Whitespace == {" ", "\n", "\t", "\r"}

\* len(re.findall(r"^## ", body, re.MULTILINE)): the lines starting "## ".
h2_count(b) ==
  Cardinality({i \in 1..(Len(b) - 2) :
                 /\ i = 1 \/ b[i - 1] = "\n"
                 /\ b[i] = "#" /\ b[i + 1] = "#" /\ b[i + 2] = " "})

\* len(body.split()): the maximal runs of non-whitespace characters.
word_count(b) ==
  Cardinality({i \in 1..Len(b) :
                 /\ b[i] \notin Whitespace
                 /\ i = 1 \/ b[i - 1] \in Whitespace})

\* sub in s
Contains(sub, s) ==
  \E i \in 0..(Len(s) - Len(sub)) : \A j \in 1..Len(sub) : s[i + j] = sub[j]

\* sep.join(parts)
RECURSIVE Join(_, _)
Join(parts, sep) ==
  IF parts = <<>> THEN <<>>
  ELSE IF Len(parts) = 1 THEN parts[1]
  ELSE parts[1] \o sep \o Join(Tail(parts), sep)

\* [x for x in l if P(x)]
RECURSIVE Filter(_, _)
Filter(l, keep) ==
  IF l = <<>> THEN <<>>
  ELSE (IF keep[1] THEN <<l[1]>> ELSE <<>>) \o Filter(Tail(l), Tail(keep))

\* The literal {{novig_internal_link}}.
LinkMarker ==
  << "{", "{", "n", "o", "v", "i", "g", "_", "i", "n", "t", "e", "r", "n", "a",
     "l", "_", "l", "i", "n", "k", "}", "}" >>

\* An issue is its message with the values formatted into it.
Issue(text, args) == [text |-> text, args |-> args]

\* Each criterion gives the points it adds and the issues it appends.
\* --- Title length ---
title_check(t) ==
  LET title_len == Len(t)
  IN  IF TITLE_MIN_LEN <= title_len /\ title_len <= TITLE_MAX_LEN
      THEN [points |-> 20, issues |-> <<>>]
      ELSE [points |-> IF title_len > 0 THEN 5 ELSE 0,
            issues |-> << Issue("Title length is {} chars (target: {}-{})",
                                <<title_len, TITLE_MIN_LEN, TITLE_MAX_LEN>>) >>]

\* meta_check with the upper bound exclusive (< where the code has <=).
meta_check_exclusive(m) ==
  LET meta_len == Len(m)
  IN  IF META_MIN_LEN <= meta_len /\ meta_len < META_MAX_LEN
      THEN [points |-> 20, issues |-> <<>>]
      ELSE [points |-> IF meta_len > 0 THEN 5 ELSE 0,
            issues |-> << Issue("Meta description length is {} chars (target: {}-{})",
                                <<meta_len, META_MIN_LEN, META_MAX_LEN>>) >>]

\* --- Meta description length ---
meta_check(m) ==
  LET meta_len == Len(m)
  IN  IF META_MIN_LEN <= meta_len /\ meta_len <= META_MAX_LEN
      THEN [points |-> 20, issues |-> <<>>]
      ELSE [points |-> IF meta_len > 0 THEN 5 ELSE 0,
            issues |-> << Issue("Meta description length is {} chars (target: {}-{})",
                                <<meta_len, META_MIN_LEN, META_MAX_LEN>>) >>]

\* h2_check counting the lines that start with "##", whatever follows.
h2_check_loose(b) ==
  LET n == Cardinality({i \in 1..(Len(b) - 1) :
                          /\ i = 1 \/ b[i - 1] = "\n"
                          /\ b[i] = "#" /\ b[i + 1] = "#"})
  IN  IF n >= MIN_H2_COUNT
      THEN [points |-> 20, issues |-> <<>>]
      ELSE [points |-> Min(n * 10, 15),
            issues |-> << Issue("Found {} H2 headings (minimum: {})",
                                <<n, MIN_H2_COUNT>>) >>]

\* --- H2 headings ---
h2_check(b) ==
  LET n == h2_count(b)
  IN  IF n >= MIN_H2_COUNT
      THEN [points |-> 20, issues |-> <<>>]
      ELSE [points |-> Min(n * 10, 15),
            issues |-> << Issue("Found {} H2 headings (minimum: {})",
                                <<n, MIN_H2_COUNT>>) >>]

\* word_check with the partial credit rounded to the nearest integer
\* (round(word_count / 500 * 15) where the code has int()).
word_check_rounded(b) ==
  LET n == word_count(b)
  IN  IF n >= MIN_WORD_COUNT
      THEN [points |-> 20, issues |-> <<>>]
      ELSE [points |-> Min((n * 30 + MIN_WORD_COUNT) \div (2 * MIN_WORD_COUNT), 15),
            issues |-> << Issue("Word count is {} (minimum: {})",
                                <<n, MIN_WORD_COUNT>>) >>]

\* word_check with a partial credit of up to 25, not capped
\* (int(word_count / 500 * 25)).
word_check_uncapped(b) ==
  LET n == word_count(b)
  IN  IF n >= MIN_WORD_COUNT
      THEN [points |-> 20, issues |-> <<>>]
      ELSE [points |-> FloatTrunc(FloatMul(FloatDiv(n, MIN_WORD_COUNT), 25)),
            issues |-> << Issue("Word count is {} (minimum: {})",
                                <<n, MIN_WORD_COUNT>>) >>]

\* --- Word count ---
word_check(b) ==
  LET n == word_count(b)
  IN  IF n >= MIN_WORD_COUNT
      THEN [points |-> 20, issues |-> <<>>]
      ELSE [points |-> Min(FloatTrunc(FloatMul(FloatDiv(n, MIN_WORD_COUNT), 15)), 15),
            issues |-> << Issue("Word count is {} (minimum: {})",
                                <<n, MIN_WORD_COUNT>>) >>]

\* The keywords argument: None, or a list of strings.
None == [isNone |-> TRUE, list |-> <<>>]

List(l) == [isNone |-> FALSE, list |-> l]

\* keyword_check looking for the keywords in the body as they are written
\* (kw in body, without lower()).
keyword_check_case_sensitive(kws, b) ==
  IF ~kws.isNone /\ kws.list # <<>>
  THEN LET n       == Len(kws.list)
           present == [k \in 1..n |-> Contains(kws.list[k], b)]
           found   == Cardinality({k \in 1..n : present[k]})
           missing == Filter(kws.list, [k \in 1..n |-> ~present[k]])
       IN  IF found = n THEN [points |-> 10, issues |-> <<>>]
           ELSE IF found > 0
           THEN [points |-> FloatTrunc(FloatMul(FloatDiv(found, n), 10)),
                 issues |-> << Issue("Missing keywords: {}",
                                     <<Join(missing, <<",", " ">>)>>) >>]
           ELSE [points |-> 0,
                 issues |-> << Issue("No target keywords found in body", <<>>) >>]
  ELSE [points |-> 10, issues |-> <<>>]

\* keyword_check without the issue for keywords that are partly missing.
keyword_check_silent(kws, b) ==
  IF ~kws.isNone /\ kws.list # <<>>
  THEN LET body_lower == lower(b)
           n       == Len(kws.list)
           present == [k \in 1..n |-> Contains(lower(kws.list[k]), body_lower)]
           found   == Cardinality({k \in 1..n : present[k]})
       IN  IF found = n THEN [points |-> 10, issues |-> <<>>]
           ELSE IF found > 0
           THEN [points |-> FloatTrunc(FloatMul(FloatDiv(found, n), 10)),
                 issues |-> <<>>]
           ELSE [points |-> 0,
                 issues |-> << Issue("No target keywords found in body", <<>>) >>]
  ELSE [points |-> 10, issues |-> <<>>]

\* --- Keywords ---
keyword_check(kws, b) ==
  IF ~kws.isNone /\ kws.list # <<>>
  THEN LET body_lower == lower(b)
           n       == Len(kws.list)
           present == [k \in 1..n |-> Contains(lower(kws.list[k]), body_lower)]
           found   == Cardinality({k \in 1..n : present[k]})
           missing == Filter(kws.list, [k \in 1..n |-> ~present[k]])
       IN  IF found = n THEN [points |-> 10, issues |-> <<>>]
           ELSE IF found > 0
           THEN [points |-> FloatTrunc(FloatMul(FloatDiv(found, n), 10)),
                 issues |-> << Issue("Missing keywords: {}",
                                     <<Join(missing, <<",", " ">>)>>) >>]
           ELSE [points |-> 0,
                 issues |-> << Issue("No target keywords found in body", <<>>) >>]
  ELSE [points |-> 10, issues |-> <<>>]

\* link_check looking for the placeholder's name without its braces.
link_check_unbraced(b) ==
  IF Contains(SubSeq(LinkMarker, 3, Len(LinkMarker) - 2), b)
  THEN [points |-> 10, issues |-> <<>>]
  ELSE [points |-> 0,
        issues |-> << Issue("Missing {{novig_internal_link}} placeholder", <<>>) >>]

\* --- Internal link placeholder ---
link_check(b) ==
  IF Contains(LinkMarker, b)
  THEN [points |-> 10, issues |-> <<>>]
  ELSE [points |-> 0,
        issues |-> << Issue("Missing {{novig_internal_link}} placeholder", <<>>) >>]

\* int(total_points / max_points * 100) if max_points > 0 else 0
final_score(total, max) ==
  IF max > 0 THEN FloatTrunc(FloatMul(FloatDiv(total, max), 100)) ELSE 0

\* SEOResult with the pass threshold exclusive.
SEOResultStrict(score, iss) ==
  [passed |-> score > PASS_THRESHOLD, score |-> score, issues |-> iss]

\* SEOResult(passed=score >= PASS_THRESHOLD, score=score, issues=issues)
SEOResult(score, iss) ==
  [passed |-> score >= PASS_THRESHOLD, score |-> score, issues |-> iss]

\* --- The inputs of the model ---
\* The most "## " heading lines of a body.
MaxH2 == 2

TitleLens == {0, 29, 30, 70, 71}

MetaLens == {0, 119, 120, 170, 171}

FillerWords == {0, 300, 494}

HeadingLine == <<"#", "#", " ", "H", "\n">>

KeywordText == <<"N", "o", "v", "i", "g", " ", "b", "e", "t", "s", "\n">>

KwNovig == <<"N", "O", "V", "I", "G">>
KwBets == <<"b", "e", "t", "s">>
KwXyz == <<"x", "y", "z">>

KeywordLists ==
  {None, List(<<>>), List(<<KwNovig>>), List(<<KwXyz>>), List(<<KwNovig, KwXyz>>),
   List(<<KwXyz, KwNovig, KwBets>>), List(<<KwXyz, KwBets, KwXyz>>)}

\* h heading lines, the keyword text or not, n filler words, the link
\* placeholder or not.
MakeBody(h, k, n, p) ==
  [i \in 1..(Len(HeadingLine) * h) |-> HeadingLine[((i - 1) % Len(HeadingLine)) + 1]]
    \o (IF k THEN KeywordText ELSE <<>>)
    \o [i \in 1..(2 * n) |-> IF i % 2 = 1 THEN "w" ELSE " "]
    \o (IF p THEN LinkMarker ELSE <<>>)

\* A body of lines that nearly are headings ("### H", " ## H", "##H"), one
\* line that is one, and the placeholder's name in single braces.
NearMissBody ==
  <<"#", "#", "#", " ", "H", "\n", " ", "#", "#", " ", "H", "\n", "#", "#",
     "H", "\n", "#", "#", " ", "H", "\n", "{", "n", "o", "v", "i", "g",
     "_", "i", "n", "t", "e", "r", "n", "a", "l", "_", "l", "i", "n", "k",
     "}", "\n">>

Bodies ==
  {MakeBody(h, k, n, p) : h \in 0..MaxH2, k \in BOOLEAN, n \in FillerWords, p \in BOOLEAN}
    \cup {NearMissBody}

\* validate is entered: the three accumulators are set (lines 57-59).
SEOInit ==
  /\ title \in {Rep("T", n) : n \in TitleLens}
  /\ meta_description \in {Rep("m", n) : n \in MetaLens}
  /\ body \in Bodies
  /\ keywords \in KeywordLists
  /\ issues = <<>>
  /\ total_points = 0
  /\ max_points = 0
  /\ awarded = <<>>
  /\ spc = "title"
  /\ result = [passed |-> FALSE, score |-> 0, issues |-> <<>>]
  /\ reports = <<>>

\* The validator is not running.
SEOIdle ==
  /\ title = <<>>
  /\ meta_description = <<>>
  /\ body = <<>>
  /\ keywords = None
  /\ issues = <<>>
  /\ total_points = 0
  /\ max_points = 0
  /\ awarded = <<>>
  /\ spc = "off"
  /\ result = [passed |-> FALSE, score |-> 0, issues |-> <<>>]
  /\ reports = <<>>

\* Criterion leaving the evaluation at the first issue: once an issue is
\* recorded, later criteria are not evaluated and add nothing.
CriterionEarlyExit(max, check) ==
  /\ max_points' = max_points + max
  /\ total_points' = IF issues = <<>> THEN total_points + check.points
                                       ELSE total_points
  /\ issues' = IF issues = <<>> THEN issues \o check.issues ELSE issues
  /\ awarded' = Append(awarded, IF issues = <<>> THEN check.points ELSE 0)
  /\ UNCHANGED <<title, meta_description, body, keywords, result, reports>>
  /\ UNCHANGED <<dedupVars, simVars, engineVars, orchVars, scraperVars>>

\* One criterion: add its maximum to max_points, its points to
\* total_points and its issues to issues.
Criterion(max, check) ==
  /\ max_points' = max_points + max
  /\ total_points' = total_points + check.points
  /\ issues' = issues \o check.issues
  /\ awarded' = Append(awarded, check.points)
  /\ UNCHANGED <<title, meta_description, body, keywords, result, reports>>
  /\ UNCHANGED <<dedupVars, simVars, engineVars, orchVars, scraperVars>>

CheckTitle ==
  /\ spc = "title"
  /\ Criterion(20, title_check(title))
  /\ spc' = "meta"

CheckMeta ==
  /\ spc = "meta"
  /\ Criterion(20, meta_check(meta_description))
  /\ spc' = "h2"

CheckH2 ==
  /\ spc = "h2"
  /\ Criterion(20, h2_check(body))
  /\ spc' = "words"

CheckWords ==
  /\ spc = "words"
  /\ Criterion(20, word_check(body))
  /\ spc' = "keywords"

CheckKeywords ==
  /\ spc = "keywords"
  /\ Criterion(10, keyword_check(keywords, body))
  /\ spc' = "link"

CheckLink ==
  /\ spc = "link"
  /\ Criterion(10, link_check(body))
  /\ spc' = "score"

\* Lines 134-137: the score, the verdict, the return.
SEOReturn ==
  /\ spc = "score"
  /\ result' = SEOResult(final_score(total_points, max_points), issues)
  /\ reports' = Append(reports, [title |-> title,
                                  meta_description |-> meta_description,
                                  body |-> body, keywords |-> keywords,
                                  awarded |-> awarded, result |-> result'])
  /\ spc' = "done"
  /\ UNCHANGED <<title, meta_description, body, keywords, issues,
                 total_points, max_points, awarded>>
  /\ UNCHANGED <<dedupVars, simVars, engineVars, orchVars, scraperVars>>

SEONext ==
  \/ CheckTitle
  \/ CheckMeta
  \/ CheckH2
  \/ CheckWords
  \/ CheckKeywords
  \/ CheckLink
  \/ SEOReturn

\* --- Two calls of validate ---
\* The inputs of the two calls: an empty and a good title and meta
\* description, no keywords and two keywords, and bodies of 0, 33, 34, 166,
\* 167, 499, 499, 500, 500 and 501 words.
PairTitles == {Rep("T", n) : n \in {0, 30}}

PairMetas == {Rep("m", n) : n \in {0, 120}}

PairKeywords == {None, List(<<KwXyz, KwNovig>>)}

PairBodies ==
  {MakeBody(0, FALSE, 0, FALSE), MakeBody(0, TRUE, 31, FALSE),
   MakeBody(0, TRUE, 32, FALSE), MakeBody(0, FALSE, 166, FALSE),
   MakeBody(0, FALSE, 167, FALSE), MakeBody(1, FALSE, 497, FALSE),
   MakeBody(1, FALSE, 498, FALSE), MakeBody(2, TRUE, 493, FALSE),
   MakeBody(2, TRUE, 493, TRUE), MakeBody(2, TRUE, 494, TRUE)}

\* validate is entered with arguments of the two-call model.
SEOPairInit ==
  /\ title \in PairTitles
  /\ meta_description \in PairMetas
  /\ body \in PairBodies
  /\ keywords \in PairKeywords
  /\ issues = <<>>
  /\ total_points = 0
  /\ max_points = 0
  /\ awarded = <<>>
  /\ spc = "title"
  /\ result = [passed |-> FALSE, score |-> 0, issues |-> <<>>]
  /\ reports = <<>>

\* The validator is called again, with any arguments: the accumulators
\* are locals of the call and start afresh (lines 57-59).
SEOAgain ==
  /\ spc = "done"
  /\ Len(reports) = 1
  /\ title' \in PairTitles
  /\ meta_description' \in PairMetas
  /\ body' \in PairBodies
  /\ keywords' \in PairKeywords
  /\ issues' = <<>>
  /\ total_points' = 0
  /\ max_points' = 0
  /\ awarded' = <<>>
  /\ spc' = "title"
  /\ UNCHANGED <<result, reports>>
  /\ UNCHANGED <<dedupVars, simVars, engineVars, orchVars, scraperVars>>

SEOPairNext == SEONext \/ SEOAgain

(***************************************************************************)
(* pipeline/processor.py: the deduplicator.                                *)
(***************************************************************************)
\* The longest input list of the model.
MaxArticles == 3

\* Titles: two that differ in their last three of twenty characters (17
\* matching characters of 40, a similarity of exactly 0.85), the first of
\* them in upper case, and one that has 16 characters in common with each.
TitleA    == Rep("x", 17) \o <<"a", "a", "a">>
TitleB    == Rep("x", 17) \o <<"b", "b", "b">>
TitleAUp  == Rep("X", 17) \o <<"A", "A", "A">>
TitleC    == Rep("x", 16) \o <<"c", "c", "c", "c">>

Titles == {<<>>, TitleA, TitleB, TitleAUp, TitleC}

Urls == {"", "u1", "u2"}

\* The article dicts: every dict has its opaque fields (source), and may or
\* may not have the keys url and title.
ArticleSet ==
  {[source |-> "s", url |-> u, title |-> t] : u \in Urls, t \in Titles}
    \cup {[source |-> "s", url |-> "u1"],
          [source |-> "s", title |-> TitleA],
          [source |-> "s"]}

SeqsUpTo(S, n) == UNION {[1..k -> S] : k \in 0..n}

DEDUP_THRESHOLD == FloatDiv(85, 100)

\* The similarities of the model's titles, computed once.
TitleMemo ==
  {<<a, b, ratio(lower(a), lower(b))>> : a \in Titles \ {<<>>}, b \in Titles \ {<<>>}}

\* title_similarity without the case-folding (a.lower(), b.lower()).
title_similarity_cased(a, b) == ratio(a, b)

\* _title_similarity
title_similarity(a, b) ==
  IF \E t \in TitleMemo : t[1] = a /\ t[2] = b
  THEN (CHOOSE t \in TitleMemo : t[1] = a /\ t[2] = b)[3]
  ELSE ratio(lower(a), lower(b))

\* is_duplicate with the threshold exclusive (> where the code has >=).
is_duplicate_strict(article, seen) ==
  LET url   == Get(article, "url", "")
      atitle == Get(article, "title", <<>>)
  IN  \E k \in 1..Len(seen) :
        LET prev       == seen[k]
            prev_title == Get(prev, "title", <<>>)
        IN  \/ url # "" /\ url = Get(prev, "url", "")
            \/ /\ atitle # <<>>
               /\ prev_title # <<>>
               /\ ~FloatGe(DEDUP_THRESHOLD, title_similarity(atitle, prev_title))

\* is_duplicate without the url comparison.
is_duplicate_title_only(article, seen) ==
  LET atitle == Get(article, "title", <<>>)
  IN  \E k \in 1..Len(seen) :
        LET prev_title == Get(seen[k], "title", <<>>)
        IN  /\ atitle # <<>>
            /\ prev_title # <<>>
            /\ FloatGe(title_similarity(atitle, prev_title), DEDUP_THRESHOLD)

\* is_duplicate comparing the urls without first testing url for emptiness.
is_duplicate_unguarded(article, seen) ==
  LET url   == Get(article, "url", "")
      atitle == Get(article, "title", <<>>)
  IN  \E k \in 1..Len(seen) :
        LET prev       == seen[k]
            prev_title == Get(prev, "title", <<>>)
        IN  \/ url = Get(prev, "url", "")
            \/ /\ atitle # <<>>
               /\ prev_title # <<>>
               /\ FloatGe(title_similarity(atitle, prev_title), DEDUP_THRESHOLD)

\* _is_duplicate: the loop returns True at the first prev that matches.
is_duplicate(article, seen) ==
  LET url   == Get(article, "url", "")
      atitle == Get(article, "title", <<>>)
  IN  \E k \in 1..Len(seen) :
        LET prev       == seen[k]
            prev_title == Get(prev, "title", <<>>)
        IN  \/ url # "" /\ url = Get(prev, "url", "")
            \/ /\ atitle # <<>>
               /\ prev_title # <<>>
               /\ FloatGe(title_similarity(atitle, prev_title), DEDUP_THRESHOLD)

\* The loop body with its test inverted.
DedupIterationInverted(article, uniq) ==
  IF is_duplicate(article, uniq) THEN Append(uniq, article) ELSE uniq

\* The loop body inserting at the front of unique.
DedupIterationPrepend(article, uniq) ==
  IF ~is_duplicate(article, uniq) THEN <<article>> \o uniq ELSE uniq

\* The loop body testing the candidate against every earlier input record.
DedupIterationAllEarlier(article, uniq) ==
  IF ~is_duplicate(article, SubSeq(articles, 1, pos - 1))
  THEN Append(uniq, article) ELSE uniq

\* The body of deduplicate's for loop: unique after the iteration on article.
DedupIteration(article, uniq) ==
  IF ~is_duplicate(article, uniq) THEN Append(uniq, article) ELSE uniq

DedupInit ==
  /\ articles \in SeqsUpTo(ArticleSet, MaxArticles)
  /\ unique = <<>>
  /\ pos = 1
  /\ keptIdx = <<>>
  /\ dpc = "loop"
  /\ calls = <<>>

\* The deduplicator is not running.
DedupIdle ==
  /\ articles = <<>>
  /\ unique = <<>>
  /\ pos = 1
  /\ keptIdx = <<>>
  /\ dpc = "off"
  /\ calls = <<>>

\* One iteration of the for loop.
DedupStep ==
  /\ dpc = "loop"
  /\ pos <= Len(articles)
  /\ unique' = DedupIteration(articles[pos], unique)
  /\ keptIdx' = IF Len(unique') > Len(unique) THEN Append(keptIdx, pos) ELSE keptIdx
  /\ pos' = pos + 1
  /\ UNCHANGED <<articles, dpc, calls>>
  /\ UNCHANGED <<seoVars, simVars, engineVars, orchVars, scraperVars>>

\* The loop is over: return unique.
DedupReturn ==
  /\ dpc = "loop"
  /\ pos > Len(articles)
  /\ dpc' = "done"
  /\ calls' = Append(calls, [arg |-> articles, result |-> unique])
  /\ UNCHANGED <<articles, unique, pos, keptIdx>>
  /\ UNCHANGED <<seoVars, simVars, engineVars, orchVars, scraperVars>>

\* The caller deduplicates the list the first call returned.
DedupAgain ==
  /\ dpc = "done"
  /\ Len(calls) = 1
  /\ articles' = unique
  /\ unique' = <<>>
  /\ pos' = 1
  /\ keptIdx' = <<>>
  /\ dpc' = "loop"
  /\ UNCHANGED calls
  /\ UNCHANGED <<seoVars, simVars, engineVars, orchVars, scraperVars>>

DedupNext == DedupStep \/ DedupReturn \/ DedupAgain

(***************************************************************************)
(* pipeline/processor.py: _title_similarity and _is_duplicate on a pair of *)
(* titles, compared in both orders.                                        *)
(***************************************************************************)
\* The longest of the enumerated titles.
MaxTitleLen == 3

TitleChars == {"a", "b", "c", "A"}

\* Two titles of seven characters, and their first three in upper case.
TitleP == <<"a", "a", "a", "a", "a", "b", "a">>
TitleQ == <<"a", "a", "b", "a", "a", "a", "b">>

SimTitles ==
  UNION {[1..n -> TitleChars] : n \in 0..MaxTitleLen}
    \cup {TitleP, TitleQ, <<"A", "A", "A">> \o SubSeq(TitleP, 4, 7)}

\* A record with the title t and the url u.
Titled(t, u) == [source |-> "s", url |-> u, title |-> t]

\* _title_similarity(a, b), and _is_duplicate of a record titled a against
\* an accepted record titled b that has another url.
Compare(a, b) ==
  [a |-> a, b |-> b,
   ratio |-> title_similarity(a, b),
   dup |-> is_duplicate(Titled(a, "u1"), <<Titled(b, "u2")>>)]

SimInit ==
  /\ sa \in SimTitles
  /\ sb \in SimTitles
  /\ sims = <<>>

\* No titles are being compared.
SimIdle ==
  /\ sa = <<>>
  /\ sb = <<>>
  /\ sims = <<>>

\* The record titled sa is the candidate, the one titled sb is accepted.
SimForward ==
  /\ sims = <<>>
  /\ sims' = <<Compare(sa, sb)>>
  /\ UNCHANGED <<sa, sb>>
  /\ UNCHANGED <<dedupVars, seoVars, engineVars, orchVars, scraperVars>>

\* The other order: sb is the candidate, sa is accepted.
SimBackward ==
  /\ Len(sims) = 1
  /\ sims' = Append(sims, Compare(sb, sa))
  /\ UNCHANGED <<sa, sb>>
  /\ UNCHANGED <<dedupVars, seoVars, engineVars, orchVars, scraperVars>>

SimNext == SimForward \/ SimBackward

(***************************************************************************)
(* rewriter/templates.py and rewriter/engine.py: get_template,             *)
(* parse_claude_response, RewriterEngine.rewrite and rewrite_and_save.     *)
(***************************************************************************)
CONTENT_TYPES == <<"best_bets", "player_props", "odds_analysis", "predictions">>

\* _TEMPLATES: the prompt template of each content type, by its name.
Templates ==
  [best_bets     |-> "BEST_BETS_TEMPLATE",
   player_props  |-> "PLAYER_PROPS_TEMPLATE",
   odds_analysis |-> "ODDS_ANALYSIS_TEMPLATE",
   predictions   |-> "PREDICTIONS_TEMPLATE"]

\* The outcome of a call: a value returned or an exception raised.
Returned(v) == [raised |-> "", value |-> v]

Raised(e, about) == [raised |-> e, value |-> about]

\* get_template substituting the best_bets template for an unknown type.
get_template_default(ctype) ==
  IF ctype \notin DOMAIN Templates
  THEN Returned(Templates["best_bets"])
  ELSE Returned(Templates[ctype])

\* get_template
get_template(ctype) ==
  IF ctype \notin DOMAIN Templates
  THEN Raised("ValueError", <<"Unknown content type '{}'. Must be one of: {}",
                              ctype, CONTENT_TYPES>>)
  ELSE Returned(Templates[ctype])

\* --- parse_claude_response ---
\* text has pat at position i.
StartsAt(text, i, pat) ==
  /\ i + Len(pat) - 1 <= Len(text)
  /\ \A j \in 1..Len(pat) : text[i + j - 1] = pat[j]

\* ^ under re.MULTILINE: the start of the text or the position after a "\n".
LineStart(text, i) == i = 1 \/ text[i - 1] = "\n"

\* The number of whitespace characters of text from position j on.
WsRun(text, j) ==
  CHOOSE k \in 0..(Len(text) - j + 1) :
    /\ \A m \in 0..(k - 1) : text[j + m] \in Whitespace
    /\ j + k > Len(text) \/ text[j + k] \notin Whitespace

\* The last position of the line that position p is on.
EndOfLine(text, p) ==
  CHOOSE q \in p..Len(text) :
    /\ \A m \in p..q : text[m] # "\n"
    /\ q = Len(text) \/ text[q + 1] = "\n"

\* s.strip()
strip(s) ==
  LET inner == {i \in 1..Len(s) : s[i] \notin Whitespace}
  IN  IF inner = {} THEN <<>>
      ELSE SubSeq(s, CHOOSE i \in inner : \A j \in inner : i <= j,
                     CHOOSE i \in inner : \A j \in inner : i >= j)

\* s.strip('"')
strip_quotes(s) ==
  LET inner == {i \in 1..Len(s) : s[i] # "\""}
  IN  IF inner = {} THEN <<>>
      ELSE SubSeq(s, CHOOSE i \in inner : \A j \in inner : i <= j,
                     CHOOSE i \in inner : \A j \in inner : i >= j)

\* re.search(r"^LABEL\s*(.+)$", text, re.MULTILINE): the group of the
\* leftmost match, or no match.  \s* takes the longest run of whitespace
\* (newlines included) after which a character other than "\n" follows, and
\* (.+) the rest of that line.
LineField(text, label) ==
  LET from(i) == i + Len(label)
      widths(i) == {k \in 0..WsRun(text, from(i)) :
                      /\ from(i) + k <= Len(text)
                      /\ text[from(i) + k] # "\n"}
      starts == {i \in 1..Len(text) :
                   LineStart(text, i) /\ StartsAt(text, i, label) /\ widths(i) # {}}
  IN  IF starts = {} THEN [found |-> FALSE, group |-> <<>>]
      ELSE LET i == CHOOSE x \in starts : \A y \in starts : x <= y
               k == CHOOSE x \in widths(i) : \A y \in widths(i) : x >= y
               p == from(i) + k
           IN  [found |-> TRUE, group |-> SubSeq(text, p, EndOfLine(text, p))]

\* re.search(r"^BODY:\s*\n(.*)", text, re.MULTILINE | re.DOTALL): \s* gives
\* back what follows the last "\n" of the whitespace after the label, and
\* (.*) takes the rest of the text.
BodyField(text, label) ==
  LET from(i) == i + Len(label)
      breaks(i) == {k \in 0..(WsRun(text, from(i)) - 1) : text[from(i) + k] = "\n"}
      starts == {i \in 1..Len(text) :
                   LineStart(text, i) /\ StartsAt(text, i, label) /\ breaks(i) # {}}
  IN  IF starts = {} THEN [found |-> FALSE, group |-> <<>>]
      ELSE LET i == CHOOSE x \in starts : \A y \in starts : x <= y
               k == CHOOSE x \in breaks(i) : \A y \in breaks(i) : x >= y
           IN  [found |-> TRUE,
                group |-> SubSeq(text, from(i) + k + 1, Len(text))]

TitleLabel ==
  <<"T", "I", "T", "L", "E", ":">>

MetaLabel ==
  <<"M", "E", "T", "A", "_", "D", "E", "S", "C", "R", "I", "P", "T", "I",
    "O", "N", ":">>

BodyLabel ==
  <<"B", "O", "D", "Y", ":">>

\* parse_claude_response taking the whole response for a field that is not
\* in it.
parse_claude_response_raw(text) ==
  LET title_match == LineField(text, TitleLabel)
      meta_match  == LineField(text, MetaLabel)
      body_match  == BodyField(text, BodyLabel)
  IN  [title |-> IF title_match.found
                 THEN strip_quotes(strip(title_match.group)) ELSE text,
       meta_description |-> IF meta_match.found
                            THEN strip_quotes(strip(meta_match.group)) ELSE text,
       body |-> IF body_match.found THEN strip(body_match.group) ELSE text]

\* parse_claude_response
parse_claude_response(text) ==
  LET title_match == LineField(text, TitleLabel)
      meta_match  == LineField(text, MetaLabel)
      body_match  == BodyField(text, BodyLabel)
  IN  [title |-> IF title_match.found
                 THEN strip_quotes(strip(title_match.group)) ELSE <<>>,
       meta_description |-> IF meta_match.found
                            THEN strip_quotes(strip(meta_match.group)) ELSE <<>>,
       body |-> IF body_match.found THEN strip(body_match.group) ELSE <<>>]

\* --- RewriterEngine.rewrite and rewrite_and_save ---
DEFAULT_KEYWORDS ==
  << <<"N", "o", "v", "i", "g">>,
     <<"p", "r", "e", "d", "i", "c", "t", "i", "o", "n", " ", "m", "a", "r",
  "k", "e", "t", "s">> >>

\* list(set(l)): the distinct elements of l, in any order.
Orders(l) ==
  {p \in [1..Cardinality(Range(l)) -> Range(l)] :
     \A i, j \in 1..Cardinality(Range(l)) : p[i] = p[j] => i = j}

Digits == {"0", "1", "2", "3", "4", "5", "6", "7", "8", "9"}

\* \w
WordChar(c) == c \in Range(UpperCase) \cup Range(LowerCase) \cup Digits \cup {"_"}

\* re.sub(r"[\s]+", "-", s): every run of whitespace becomes one hyphen.
Hyphenate(s) ==
  LET heads == {i \in 1..Len(s) :
                  s[i] \notin Whitespace \/ i = 1 \/ s[i - 1] \notin Whitespace}
      nth(n) == CHOOSE i \in heads : Cardinality({j \in heads : j <= i}) = n
  IN  [n \in 1..Cardinality(heads) |->
         IF s[nth(n)] \in Whitespace THEN "-" ELSE s[nth(n)]]

\* Lines 224-226: the file name of an article.
Filename(ctype, t) ==
  LET kept == SelectSeq(t, LAMBDA c : WordChar(c) \/ c \in Whitespace \/ c = "-")
      safe_title == lower(Hyphenate(strip(kept)))
  IN  <<ctype, "_", SubSeq(safe_title, 1, Min(60, Len(safe_title))), ".md">>

\* The content types the engine is called with: the four known ones, and
\* keys that are none of them.
ContentTypeInputs ==
  Range(CONTENT_TYPES) \cup {"", "not_real", "Best_Bets", "news"}

\* The keywords argument of the engine.
EngineKeywords == {None, List(<<KwXyz>>)}

\* The parts the responses of the LLM are made of.
RespTitles ==
  { <<>>,
    <<"T", "I", "T", "L", "E", ":", " ", "A", "b", "\n">>,
    <<"T", "I", "T", "L", "E", ":", " ", " ", "\"", "A", " ", "b", "!", "\"",
  " ", "\n">>,
    <<"T", "I", "T", "L", "E", ":", "\n">> }

RespMetas ==
  { <<>>,
    <<"M", "E", "T", "A", "_", "D", "E", "S", "C", "R", "I", "P", "T", "I",
  "O", "N", ":", " ", "c", "d", "\n">> }

RespBodies ==
  { <<>>,
    <<"B", "O", "D", "Y", ":", "\n", "#", "#", " ", "H", "\n", "N", "o", "v",
  "i", "g", " ", "w">>,
    <<"B", "O", "D", "Y", ":", " ", "x", "\n">>,
    <<"B", "O", "D", "Y", ":", " ", "\n", "\n", " ", "w", " ", "\n">> }

\* The responses: with and without each field, in the expected format and
\* near it, and text that is no article at all.
Responses ==
  {t \o m \o b : t \in RespTitles, m \in RespMetas, b \in RespBodies}
    \cup { <<"S", "o", "r", "r", "y", ".">> }

NoOutcome == Returned("")

EngineInit ==
  /\ content_type \in ContentTypeInputs
  /\ kwarg \in EngineKeywords
  /\ save \in BOOLEAN
  /\ epc = "rewrite"
  /\ template = ""
  /\ kwlist = <<>>
  /\ requests = <<>>
  /\ response = <<>>
  /\ files = {}
  /\ outcome = NoOutcome

\* The engine is not running.
EngineIdle ==
  /\ content_type = ""
  /\ kwarg = None
  /\ save = FALSE
  /\ epc = "off"
  /\ template = ""
  /\ kwlist = <<>>
  /\ requests = <<>>
  /\ response = <<>>
  /\ files = {}
  /\ outcome = NoOutcome

\* Lines 140-150: the keyword list, then the template; an unknown content
\* type raises out of rewrite (and out of rewrite_and_save).
RewriteTemplate ==
  /\ epc = "rewrite"
  /\ kwlist' \in Orders(kwarg.list \o DEFAULT_KEYWORDS)
  /\ LET t == get_template(content_type)
     IN  IF t.raised # ""
         THEN /\ outcome' = t
              /\ epc' = "raised"
              /\ UNCHANGED template
         ELSE /\ template' = t.value
              /\ epc' = "request"
              /\ UNCHANGED outcome
  /\ UNCHANGED <<content_type, kwarg, save, requests, response, files>>
  /\ UNCHANGED <<dedupVars, seoVars, simVars, orchVars, scraperVars>>

\* Lines 156-160: the request is sent; the LLM answers with some text.
RewriteRequest ==
  /\ epc = "request"
  /\ requests' = Append(requests, template)
  /\ response' \in Responses
  /\ epc' = "parse"
  /\ UNCHANGED <<content_type, kwarg, save, template, kwlist, files, outcome>>
  /\ UNCHANGED <<dedupVars, seoVars, simVars, orchVars, scraperVars>>

\* Lines 156-160: the request is sent and the client raises (no answer).
RewriteRequestFails ==
  /\ epc = "request"
  /\ requests' = Append(requests, template)
  /\ outcome' = Raised("APIError", <<>>)
  /\ epc' = "raised"
  /\ UNCHANGED <<content_type, kwarg, save, template, kwlist, response, files>>
  /\ UNCHANGED <<dedupVars, seoVars, simVars, orchVars, scraperVars>>

\* Lines 162-170: the response is parsed and validate is called.
RewriteValidate ==
  /\ epc = "parse"
  /\ LET parsed == parse_claude_response(response)
     IN  /\ title' = parsed.title
         /\ meta_description' = parsed.meta_description
         /\ body' = parsed.body
  /\ keywords' = List(kwlist)
  /\ issues' = <<>>
  /\ total_points' = 0
  /\ max_points' = 0
  /\ awarded' = <<>>
  /\ spc' = "title"
  /\ epc' = "validate"
  /\ UNCHANGED <<result, reports>>
  /\ UNCHANGED <<content_type, kwarg, save, template, kwlist, requests,
                 response, files, outcome>>
  /\ UNCHANGED <<dedupVars, simVars, orchVars, scraperVars>>

\* Lines 172-196: validate has returned; the front matter, the markdown and
\* the dict that rewrite returns.
RewriteReturn ==
  /\ epc = "validate"
  /\ spc = "done"
  /\ outcome' = Returned(
       [title |-> title, meta_description |-> meta_description, body |-> body,
        markdown |-> [title |-> title, meta_description |-> meta_description,
                      category |-> content_type, keywords |-> kwlist,
                      seo_score |-> result.score, body |-> body],
        seo_result |-> result, content_type |-> content_type,
        keywords |-> kwlist])
  /\ epc' = IF save THEN "save" ELSE "done"
  /\ UNCHANGED <<content_type, kwarg, save, template, kwlist, requests,
                 response, files>>
  /\ UNCHANGED <<dedupVars, seoVars, simVars, orchVars, scraperVars>>

\* Lines 220-233: rewrite_and_save writes the markdown to its file.
RewriteSave ==
  /\ epc = "save"
  /\ LET out_path == Filename(outcome.value.content_type, outcome.value.title)
     IN  /\ files' = {f \in files : f.path # out_path}
                       \cup {[path |-> out_path, text |-> outcome.value.markdown]}
         /\ outcome' = Returned([r \in {"output_path"} |-> out_path] @@ outcome.value)
  /\ epc' = "done"
  /\ UNCHANGED <<content_type, kwarg, save, template, kwlist, requests, response>>
  /\ UNCHANGED <<dedupVars, seoVars, simVars, orchVars, scraperVars>>

EngineNext ==
  \/ RewriteTemplate
  \/ RewriteRequest
  \/ RewriteRequestFails
  \/ RewriteValidate
  \/ RewriteReturn
  \/ RewriteSave
  \/ SEONext

(***************************************************************************)
(* rewriter/seo.py and pipeline/processor.py as functions: what validate   *)
(* and deduplicate return, for the callers that use the value only.        *)
(***************************************************************************)
\* validate: the six criteria in turn, then the score and the verdict.
validate(t, m, b, kws) ==
  LET checks == <<title_check(t), meta_check(m), h2_check(b), word_check(b),
                  keyword_check(kws, b), link_check(b)>>
      maxima == <<20, 20, 20, 20, 10, 10>>
      total[i \in 0..6] == IF i = 0 THEN 0 ELSE total[i - 1] + checks[i].points
      most[i \in 0..6] == IF i = 0 THEN 0 ELSE most[i - 1] + maxima[i]
      iss[i \in 0..6] == IF i = 0 THEN <<>> ELSE iss[i - 1] \o checks[i].issues
  IN  SEOResult(final_score(total[6], most[6]), iss[6])

\* deduplicate: the for loop over articles, from the first n records.
RECURSIVE deduplicate_upto(_, _)
deduplicate_upto(arts, n) ==
  IF n = 0 THEN <<>>
  ELSE DedupIteration(arts[n], deduplicate_upto(arts, n - 1))

\* deduplicate
deduplicate(arts) == deduplicate_upto(arts, Len(arts))

(***************************************************************************)
(* pipeline/processor.py: PipelineProcessor.run and process_article, with  *)
(* the engine's rewrite_and_save that process_article calls.               *)
(***************************************************************************)
\* The most articles the raw directory holds.
MaxRaw == 3

\* The raw articles: one with the default content type, one whose title is
\* the first one's in upper case, one with the second one's url, and one
\* without url and title whose content type is not a template's.
RawA == [source |-> "s", url |-> "u1", title |-> TitleA]
RawB == [source |-> "s", url |-> "u2", title |-> TitleAUp,
         content_type |-> "predictions"]
RawC == [source |-> "s", url |-> "u2", title |-> TitleC,
         content_type |-> "player_props"]
RawD == [source |-> "s", content_type |-> "news"]

RawArticles == {RawA, RawB, RawC, RawD}

\* A response the validator passes (score 80): a title of 30 characters, a
\* meta description of 120, two headings, both default keywords and the
\* link placeholder.
GoodResponse ==
  TitleLabel \o <<" ">> \o Rep("T", TITLE_MIN_LEN) \o <<"\n">>
    \o MetaLabel \o <<" ">> \o Rep("m", META_MIN_LEN) \o <<"\n">>
    \o BodyLabel \o <<"\n">> \o HeadingLine \o HeadingLine
    \o DEFAULT_KEYWORDS[1] \o <<" ">> \o DEFAULT_KEYWORDS[2] \o <<" ">>
    \o LinkMarker

\* A response that is no article: every field parses to the empty string.
BadResponse == <<"S", "o", "r", "r", "y", ".">>

PipeResponses == {GoodResponse, BadResponse}

\* What rewrite makes of each response under each order of the keywords:
\* the parsed fields and the SEOResult, computed once.
RewriteMemo ==
  {<<r, k, parse_claude_response(r),
     validate(parse_claude_response(r).title,
              parse_claude_response(r).meta_description,
              parse_claude_response(r).body, List(k))>> :
     r \in PipeResponses, k \in Orders(DEFAULT_KEYWORDS)}

Parsed(r, k) == (CHOOSE e \in RewriteMemo : e[1] = r /\ e[2] = k)[3]

Scored(r, k) == (CHOOSE e \in RewriteMemo : e[1] = r /\ e[2] = k)[4]

NoArticle == [content_type |-> "", keywords |-> <<>>, response |-> <<>>]

PipeInit ==
  /\ raw \in SeqsUpTo(RawArticles, MaxRaw)
  /\ deduped = <<>>
  /\ ppos = 1
  /\ ppc = "load"
  /\ pcur = NoArticle
  /\ plog = <<>>
  /\ preturns = <<>>
  /\ presults = <<>>
  /\ pfiles = {}
  /\ poutcome = None

\* The pipeline is not running.
PipeIdle ==
  /\ raw = <<>>
  /\ deduped = <<>>
  /\ ppos = 1
  /\ ppc = "off"
  /\ pcur = NoArticle
  /\ plog = <<>>
  /\ preturns = <<>>
  /\ presults = <<>>
  /\ pfiles = {}
  /\ poutcome = None

\* Lines 172-175: the raw articles are loaded; without any, run returns [].
PipeLoad ==
  /\ ppc = "load"
  /\ plog' = Append(plog, <<"load", 0>>)
  /\ IF raw = <<>>
     THEN ppc' = "done" /\ poutcome' = List(<<>>)
     ELSE ppc' = "dedup" /\ UNCHANGED poutcome
  /\ UNCHANGED <<raw, deduped, ppos, pcur, preturns, presults, pfiles>>
  /\ UNCHANGED <<dedupVars, seoVars, simVars, engineVars, mainVars, pubVars, scraperVars>>

\* Lines 177-179: articles = self.deduplicate(articles); results = [].
PipeDedup ==
  /\ ppc = "dedup"
  /\ deduped' = deduplicate(raw)
  /\ plog' = Append(plog, <<"dedup", 0>>)
  /\ ppos' = 1
  /\ ppc' = "rewrite"
  /\ UNCHANGED <<raw, pcur, preturns, presults, pfiles, poutcome>>
  /\ UNCHANGED <<dedupVars, seoVars, simVars, engineVars, mainVars, pubVars, scraperVars>>

\* PipeCollect with a None ending run's loop.
PipeCollectStop(r) ==
  /\ preturns' = Append(preturns, r)
  /\ presults' = IF r.isNone THEN presults ELSE Append(presults, r.list)
  /\ ppos' = IF r.isNone THEN Len(deduped) + 1 ELSE ppos + 1
  /\ ppc' = "rewrite"
  /\ pcur' = NoArticle

\* process_article returns r to run's loop (lines 181-185): a result that
\* is not None is appended to results.
PipeCollect(r) ==
  /\ preturns' = Append(preturns, r)
  /\ presults' = IF r.isNone THEN presults ELSE Append(presults, r.list)
  /\ ppos' = ppos + 1
  /\ ppc' = "rewrite"
  /\ pcur' = NoArticle

\* Lines 131-148 and engine.py 140-164: the next article goes to the
\* engine.  An unknown content type raises before any request; the request
\* may raise; process_article turns either into None.  Otherwise the LLM
\* answers.
PipeRewrite ==
  /\ ppc = "rewrite"
  /\ ppos <= Len(deduped)
  /\ plog' = Append(plog, <<"rewrite", ppos>>)
  /\ LET article == deduped[ppos]
         ctype == Get(article, "content_type", "best_bets")
     IN  \E k \in Orders(Get(article, "keywords", <<>>) \o DEFAULT_KEYWORDS) :
           IF get_template(ctype).raised # ""
           THEN PipeCollect(None)
           ELSE \/ PipeCollect(None)
                \/ \E r \in PipeResponses :
                     /\ pcur' = [content_type |-> ctype, keywords |-> k,
                                 response |-> r]
                     /\ ppc' = "score"
                     /\ UNCHANGED <<ppos, preturns, presults>>
  /\ UNCHANGED <<raw, deduped, pfiles, poutcome>>
  /\ UNCHANGED <<dedupVars, seoVars, simVars, engineVars, mainVars, pubVars, scraperVars>>

\* engine.py 162-170: the response is parsed and the validator scores it.
PipeScore ==
  /\ ppc = "score"
  /\ plog' = Append(plog, <<"score", ppos>>)
  /\ pcur' = [r \in {"parsed", "seo_result"} |->
                IF r = "parsed" THEN Parsed(pcur.response, pcur.keywords)
                ELSE Scored(pcur.response, pcur.keywords)] @@ pcur
  /\ ppc' = "persist"
  /\ UNCHANGED <<raw, deduped, ppos, preturns, presults, pfiles, poutcome>>
  /\ UNCHANGED <<dedupVars, seoVars, simVars, engineVars, mainVars, pubVars, scraperVars>>

\* The dict rewrite_and_save returns for the article in pcur.
PipeResult ==
  [title |-> pcur.parsed.title,
   meta_description |-> pcur.parsed.meta_description,
   body |-> pcur.parsed.body,
   seo_result |-> pcur.seo_result,
   content_type |-> pcur.content_type,
   keywords |-> pcur.keywords,
   output_path |-> Filename(pcur.content_type, pcur.parsed.title)]

\* process_article after the rewrite (lines 150-163): the verdict is
\* logged, and the result is returned whatever the verdict.
process_article(res) == List(res)

\* engine.py 220-233, then lines 150-163: the file is written and
\* process_article returns.
PipePersist ==
  /\ ppc = "persist"
  /\ plog' = Append(plog, <<"persist", ppos>>)
  /\ pfiles' = {f \in pfiles : f.path # PipeResult.output_path}
                 \cup {[path |-> PipeResult.output_path,
                        text |-> PipeResult.body]}
  /\ PipeCollect(process_article(PipeResult))
  /\ UNCHANGED <<raw, deduped, poutcome>>
  /\ UNCHANGED <<dedupVars, seoVars, simVars, engineVars, mainVars, pubVars, scraperVars>>

\* Lines 187-193: the loop is over; run returns results.
PipeReturn ==
  /\ ppc = "rewrite"
  /\ ppos > Len(deduped)
  /\ poutcome' = List(presults)
  /\ ppc' = "done"
  /\ UNCHANGED <<raw, deduped, ppos, pcur, plog, preturns, presults, pfiles>>
  /\ UNCHANGED <<dedupVars, seoVars, simVars, engineVars, mainVars, pubVars, scraperVars>>

PipeNext ==
  \/ PipeLoad
  \/ PipeDedup
  \/ PipeRewrite
  \/ PipeScore
  \/ PipePersist
  \/ PipeReturn

(***************************************************************************)
(* main.py: run_rewriter, with the engine's rewrite_and_save it calls.     *)
(***************************************************************************)
\* The most site directories under the raw directory.
MaxSites == 2

\* The articles of the sites' files: one with the default category, and
\* one whose category is not a template's.
SiteArticleA == [source |-> "s", url |-> "u1", title |-> TitleA]
SiteArticleB == [source |-> "s", url |-> "u2", title |-> TitleC,
                 category |-> "news"]

\* A site directory: without a file for the date, with a file that is not
\* JSON, or with a file of articles.
NoFile == [file |-> "none", articles |-> <<>>]
NotJSON == [file |-> "invalid", articles |-> <<>>]
SiteFile(arts) == [file |-> "json", articles |-> arts]

\* The article lists of the sites' files: none, one article, the same
\* article twice, and an article before and after one of unknown category.
SiteArticleLists ==
  {<<>>, <<SiteArticleA>>, <<SiteArticleB>>, <<SiteArticleA, SiteArticleA>>,
   <<SiteArticleA, SiteArticleB>>, <<SiteArticleB, SiteArticleA>>}

SiteDirs == {NoFile, NotJSON} \cup {SiteFile(a) : a \in SiteArticleLists}

MainInit ==
  /\ msites \in SeqsUpTo(SiteDirs, MaxSites)
  /\ msi = 1
  /\ mai = 1
  /\ mpc = "site"
  /\ mcur = NoArticle
  /\ mlog = <<>>
  /\ mfiles = {}
  /\ mwritten = <<>>
  /\ mfailed = <<>>

\* run_rewriter is not running.
MainIdle ==
  /\ msites = <<>>
  /\ msi = 1
  /\ mai = 1
  /\ mpc = "off"
  /\ mcur = NoArticle
  /\ mlog = <<>>
  /\ mfiles = {}
  /\ mwritten = <<>>
  /\ mfailed = <<>>

\* The except clause letting the exception out of run_rewriter.
MainFailPropagates ==
  /\ mpc' = "raised"
  /\ mcur' = NoArticle
  /\ UNCHANGED <<msi, mai, mfailed>>

\* Lines 104-105: an exception in the try block is logged with the site's
\* name, and the for loop over the sites goes on.
MainFail ==
  /\ mfailed' = Append(mfailed, msi)
  /\ msi' = msi + 1
  /\ mai' = 1
  /\ mpc' = "site"
  /\ mcur' = NoArticle

\* Lines 84-93: the next site directory; one without a file for the date is
\* skipped, and a file that does not load raises inside the try block.
MainSite ==
  /\ mpc = "site"
  /\ msi <= Len(msites)
  /\ CASE msites[msi].file = "none" ->
            /\ msi' = msi + 1
            /\ UNCHANGED <<mai, mpc, mcur, mfailed>>
       [] msites[msi].file = "invalid" -> MainFail
       [] OTHER ->
            /\ mai' = 1
            /\ mpc' = "rewrite"
            /\ UNCHANGED <<msi, mcur, mfailed>>
  /\ UNCHANGED <<msites, mlog, mfiles, mwritten>>
  /\ UNCHANGED <<dedupVars, seoVars, simVars, engineVars, pipeVars, pubVars, scraperVars>>

\* Lines 94-102 and engine.py 140-164: the next article of the site goes
\* to the engine.  An unknown category raises before any request, and the
\* request may raise; otherwise the LLM answers.
MainRewrite ==
  /\ mpc = "rewrite"
  /\ mai <= Len(msites[msi].articles)
  /\ mlog' = Append(mlog, <<"rewrite", msi, mai>>)
  /\ LET article == msites[msi].articles[mai]
         ctype == Get(article, "category", "best_bets")
     IN  \E k \in Orders(DEFAULT_KEYWORDS) :
           IF get_template(ctype).raised # ""
           THEN MainFail
           ELSE \/ MainFail
                \/ \E r \in PipeResponses :
                     /\ mcur' = [content_type |-> ctype, keywords |-> k,
                                 response |-> r]
                     /\ mpc' = "score"
                     /\ UNCHANGED <<msi, mai, mfailed>>
  /\ UNCHANGED <<msites, mfiles, mwritten>>
  /\ UNCHANGED <<dedupVars, seoVars, simVars, engineVars, pipeVars, pubVars, scraperVars>>

\* engine.py 162-170: the response is parsed and the validator scores it.
MainScore ==
  /\ mpc = "score"
  /\ mlog' = Append(mlog, <<"score", msi, mai>>)
  /\ mcur' = [r \in {"parsed", "seo_result"} |->
                IF r = "parsed" THEN Parsed(mcur.response, mcur.keywords)
                ELSE Scored(mcur.response, mcur.keywords)] @@ mcur
  /\ mpc' = "persist"
  /\ UNCHANGED <<msites, msi, mai, mfiles, mwritten, mfailed>>
  /\ UNCHANGED <<dedupVars, seoVars, simVars, engineVars, pipeVars, pubVars, scraperVars>>

\* engine.py 220-233: the file is written; the loop goes to the next
\* article of the site.
MainPersist ==
  /\ mpc = "persist"
  /\ mlog' = Append(mlog, <<"persist", msi, mai>>)
  /\ LET out_path == Filename(mcur.content_type, mcur.parsed.title)
     IN  /\ mfiles' = {f \in mfiles : f.path # out_path}
                        \cup {[path |-> out_path, text |-> mcur.parsed.body]}
         /\ mwritten' = Append(mwritten, out_path)
  /\ mai' = mai + 1
  /\ mpc' = "rewrite"
  /\ mcur' = NoArticle
  /\ UNCHANGED <<msites, msi, mfailed>>
  /\ UNCHANGED <<dedupVars, seoVars, simVars, engineVars, pipeVars, pubVars, scraperVars>>

\* Line 103: the site's articles are done.
MainSiteDone ==
  /\ mpc = "rewrite"
  /\ mai > Len(msites[msi].articles)
  /\ msi' = msi + 1
  /\ mai' = 1
  /\ mpc' = "site"
  /\ UNCHANGED <<msites, mcur, mlog, mfiles, mwritten, mfailed>>
  /\ UNCHANGED <<dedupVars, seoVars, simVars, engineVars, pipeVars, pubVars, scraperVars>>

\* The loop over the sites is over: run_rewriter returns.
MainReturn ==
  /\ mpc = "site"
  /\ msi > Len(msites)
  /\ mpc' = "done"
  /\ UNCHANGED <<msites, msi, mai, mcur, mlog, mfiles, mwritten, mfailed>>
  /\ UNCHANGED <<dedupVars, seoVars, simVars, engineVars, pipeVars, pubVars, scraperVars>>

MainNext ==
  \/ MainSite
  \/ MainRewrite
  \/ MainScore
  \/ MainPersist
  \/ MainSiteDone
  \/ MainReturn

(***************************************************************************)
(* publisher/blog.py: Manifest, FilePublisher.publish and                  *)
(* WebflowPublisher.publish with _post_with_retry.  A call is a coroutine  *)
(* that runs from one await to the next; the manifest file, the published  *)
(* files and the Webflow API are shared by the coroutines.                 *)
(***************************************************************************)
\* The most publish calls made one after another.
MaxPublishes == 2

_MAX_RETRIES == 3

_RETRY_BASE_DELAY == 2

Tasks == {1, 2}

Backends == {"file", "webflow"}

\* The status codes the Webflow API answers with.
Statuses == {200, 201, 202, 401, 404, 429, 500}

\* The articles of the formatter: one with an RSS snippet, one with an
\* empty one.
PubArticles ==
  {[slug |-> "a", title |-> "A", html |-> "<p>1</p>", rss_xml |-> "<item/>"],
   [slug |-> "b", title |-> "B", html |-> "<p>2</p>", rss_xml |-> ""]}

\* Both constructors taking a manifest of their own, named after the
\* backend.
manifest_path_own(backend) == <<"published", backend, "manifest.json">>

\* FilePublisher.__init__ and WebflowPublisher.__init__:
\* Manifest(published_dir / "manifest.json").
manifest_path(backend) == <<"published", "manifest.json">>

ManifestPaths == {manifest_path(b) : b \in Backends \cup {"add"}}

\* contains comparing the slug with the titles of the entries.
contains_by_title(data, slug) == \E i \in 1..Len(data) : data[i].title = slug

\* Manifest.contains on the loaded data:
\* any(a["slug"] == slug for a in data.get("articles", []))
contains(data, slug) == \E i \in 1..Len(data) : data[i].slug = slug

\* The status test of publish taking every status below 500 for a success.
is_success_lenient(status) == status < 500

\* WebflowPublisher.publish: resp.status_code in (200, 201, 202)
is_success(status) == status \in {200, 201, 202}

\* The delay of _post_with_retry doubling with every attempt.
retry_delay_doubling(attempt) == 2 ^ attempt

\* _post_with_retry: delay = _RETRY_BASE_DELAY * attempt (2.0, 4.0 and 6.0
\* are exact in binary64).
retry_delay(attempt) == _RETRY_BASE_DELAY * attempt

\* What a call can see and change outside itself.
Snapshot ==
  [manifest |-> manifest, files |-> pubfiles, posts |-> Len(apiCalls)]

IdleTask ==
  [backend |-> "", article |-> [slug |-> ""], pc |-> "idle", data |-> <<>>,
   attempt |-> 0, resps |-> <<>>, waits |-> <<>>, wrote |-> {},
   start |-> [manifest |-> [p \in {} |-> <<>>], files |-> {}, posts |-> 0],
   outcome |-> NoOutcome]

\* A call of publish on a backend (or of Manifest.add) is entered.
NewTask(backend, article) ==
  [IdleTask EXCEPT !.backend = backend, !.article = article,
                   !.pc = IF backend = "add" THEN "add_load" ELSE "contains",
                   !.start = Snapshot]

\* The manifest entry a call adds.
Entry(t) ==
  IF task[t].backend = "file"
  THEN [slug |-> task[t].article.slug, title |-> task[t].article.title,
        path |-> <<task[t].article.slug, ".html">>]
  ELSE IF task[t].backend = "webflow"
  THEN [slug |-> task[t].article.slug, title |-> task[t].article.title,
        webflow_id |-> "id", is_draft |-> TRUE]
  ELSE [slug |-> task[t].article.slug, title |-> task[t].article.title]

\* Nothing is published and no call is running.
PubIdle ==
  /\ manifest = [p \in ManifestPaths |-> <<>>]
  /\ truncated = [p \in ManifestPaths |-> FALSE]
  /\ pubfiles = {}
  /\ apiCalls = <<>>
  /\ task = [t \in Tasks |-> IdleTask]
  /\ pcalls = <<>>

\* Two calls are entered together: two publish calls, or two Manifest.add
\* calls.
PubConcInit ==
  /\ manifest = [p \in ManifestPaths |-> <<>>]
  /\ truncated = [p \in ManifestPaths |-> FALSE]
  /\ pubfiles = {}
  /\ apiCalls = <<>>
  /\ \E kind \in {"publish", "add"} :
       \E b \in [Tasks -> IF kind = "add" THEN {"add"} ELSE Backends] :
         \E a \in [Tasks -> PubArticles] :
           task = [t \in Tasks |->
                     [IdleTask EXCEPT
                        !.backend = b[t], !.article = a[t],
                        !.pc = IF b[t] = "add" THEN "add_load" ELSE "contains",
                        !.start = [manifest |-> [p \in ManifestPaths |-> <<>>],
                                   files |-> {}, posts |-> 0]]]
  /\ pcalls = <<>>

\* The call of task t is over, with outcome out: it is recorded with what
\* it left behind.
Finish(t, out, tk) ==
  /\ task' = [task EXCEPT ![t] = [tk EXCEPT !.pc = "done", !.outcome = out]]
  /\ pcalls' = Append(pcalls, [task |-> t, backend |-> tk.backend,
                               slug |-> tk.article.slug, start |-> tk.start,
                               end |-> Snapshot', resps |-> tk.resps,
                               waits |-> tk.waits, wrote |-> tk.wrote,
                               outcome |-> out])

\* Manifest.load raising: the file is open for writing and still empty, so
\* json.loads raises out of the call.
LoadFails(t) ==
  /\ truncated[manifest_path(task[t].backend)]
  /\ UNCHANGED <<manifest, truncated, pubfiles, apiCalls>>
  /\ Finish(t, Raised("JSONDecodeError", <<>>), task[t])

\* A publish call is made while no other call runs (lines 78-79, 218-219).
PubCall ==
  /\ \A t \in Tasks : task[t].pc \in {"idle", "done"}
  /\ Len(pcalls) < MaxPublishes
  /\ \E b \in Backends, a \in PubArticles :
       task' = [task EXCEPT ![1] = NewTask(b, a)]
  /\ UNCHANGED <<manifest, truncated, pubfiles, apiCalls, pcalls>>
  /\ UNCHANGED <<dedupVars, seoVars, simVars, engineVars, pipeVars, mainVars, scraperVars>>

\* Lines 81-83 and 221-223: the manifest is loaded; a slug that is in it
\* makes publish return the slug at once.  Otherwise FilePublisher goes on
\* to write, and WebflowPublisher to the first attempt of _post_with_retry.
PubContains(t) ==
  /\ task[t].pc = "contains"
  /\ \/ LoadFails(t)
     \/ /\ ~truncated[manifest_path(task[t].backend)]
        /\ UNCHANGED <<manifest, truncated, pubfiles, apiCalls>>
        /\ IF contains(manifest[manifest_path(task[t].backend)],
                       task[t].article.slug)
           THEN Finish(t, Returned(task[t].article.slug), task[t])
           ELSE /\ task' = [task EXCEPT
                              ![t].pc = IF task[t].backend = "file"
                                        THEN "write" ELSE "post",
                              ![t].attempt = IF task[t].backend = "file"
                                             THEN 0 ELSE 1]
                /\ UNCHANGED pcalls
  /\ UNCHANGED <<dedupVars, seoVars, simVars, engineVars, pipeVars, mainVars, scraperVars>>

\* Lines 85-97: FilePublisher writes the HTML file, and the RSS snippet
\* when the article has one.
FileWrite(t) ==
  /\ task[t].pc = "write"
  /\ LET slug == task[t].article.slug
         new == {<<slug, ".html">>}
                  \cup (IF task[t].article.rss_xml # ""
                        THEN {<<slug, ".rss.xml">>} ELSE {})
     IN  /\ pubfiles' = pubfiles \cup new
         /\ task' = [task EXCEPT ![t].pc = "add_load",
                                 ![t].wrote = task[t].wrote \cup new]
  /\ UNCHANGED <<manifest, truncated, apiCalls, pcalls>>
  /\ UNCHANGED <<dedupVars, seoVars, simVars, engineVars, pipeVars, mainVars, scraperVars>>

\* Lines 186-189: one POST of _post_with_retry; a status other than 429 is
\* returned to publish.
WebflowPost(t) ==
  /\ task[t].pc = "post"
  /\ \E status \in Statuses :
       /\ apiCalls' = Append(apiCalls, [slug |-> task[t].article.slug,
                                        status |-> status])
       /\ task' = [task EXCEPT
                     ![t].resps = Append(task[t].resps, status),
                     ![t].pc = IF status # 429 THEN "respond" ELSE "sleep"]
  /\ UNCHANGED <<manifest, truncated, pubfiles, pcalls>>
  /\ UNCHANGED <<dedupVars, seoVars, simVars, engineVars, pipeVars, mainVars, scraperVars>>

\* Lines 190-196: after a 429 the call sleeps, then the loop goes to the
\* next attempt, or ends and returns the last response.
WebflowSleep(t) ==
  /\ task[t].pc = "sleep"
  /\ task' = [task EXCEPT
                ![t].waits = Append(task[t].waits, retry_delay(task[t].attempt)),
                ![t].attempt = IF task[t].attempt < _MAX_RETRIES
                               THEN task[t].attempt + 1 ELSE task[t].attempt,
                ![t].pc = IF task[t].attempt < _MAX_RETRIES
                          THEN "post" ELSE "respond"]
  /\ UNCHANGED <<manifest, truncated, pubfiles, apiCalls, pcalls>>
  /\ UNCHANGED <<dedupVars, seoVars, simVars, engineVars, pipeVars, mainVars, scraperVars>>

\* Lines 232-270: publish looks at the status: a success goes on to
\* manifest.add, anything else is logged and raises RuntimeError.
WebflowRespond(t) ==
  /\ task[t].pc = "respond"
  /\ UNCHANGED <<manifest, truncated, pubfiles, apiCalls>>
  /\ LET status == task[t].resps[Len(task[t].resps)]
     IN  IF is_success(status)
         THEN /\ task' = [task EXCEPT ![t].pc = "add_load"]
              /\ UNCHANGED pcalls
         ELSE Finish(t, Raised("RuntimeError", <<status, task[t].article.slug>>),
                     task[t])
  /\ UNCHANGED <<dedupVars, seoVars, simVars, engineVars, pipeVars, mainVars, scraperVars>>

\* Manifest.add, lines 62-63: the manifest is loaded and the entry is
\* appended to the loaded data.
AddLoad(t) ==
  /\ task[t].pc = "add_load"
  /\ \/ LoadFails(t)
     \/ /\ ~truncated[manifest_path(task[t].backend)]
        /\ task' = [task EXCEPT
                      ![t].data = Append(manifest[manifest_path(task[t].backend)],
                                         Entry(t)),
                      ![t].pc = "add_open"]
        /\ UNCHANGED <<manifest, truncated, pubfiles, apiCalls, pcalls>>
  /\ UNCHANGED <<dedupVars, seoVars, simVars, engineVars, pipeVars, mainVars, scraperVars>>

\* Manifest.save, lines 52-54: the file is opened for writing, which
\* empties it.
AddOpen(t) ==
  /\ task[t].pc = "add_open"
  /\ truncated' = [truncated EXCEPT ![manifest_path(task[t].backend)] = TRUE]
  /\ task' = [task EXCEPT ![t].pc = "add_save"]
  /\ UNCHANGED <<manifest, pubfiles, apiCalls, pcalls>>
  /\ UNCHANGED <<dedupVars, seoVars, simVars, engineVars, pipeVars, mainVars, scraperVars>>

\* Manifest.save, line 55: the data of this call becomes the file's
\* content; add returns, and publish returns the slug.
AddSave(t) ==
  /\ task[t].pc = "add_save"
  /\ manifest' = [manifest EXCEPT ![manifest_path(task[t].backend)] = task[t].data]
  /\ truncated' = [truncated EXCEPT ![manifest_path(task[t].backend)] = FALSE]
  /\ UNCHANGED <<pubfiles, apiCalls>>
  /\ Finish(t, Returned(task[t].article.slug), task[t])
  /\ UNCHANGED <<dedupVars, seoVars, simVars, engineVars, pipeVars, mainVars, scraperVars>>

\* The steps of the calls that run.
PubStep ==
  \/ \E t \in Tasks : PubContains(t)
  \/ \E t \in Tasks : FileWrite(t)
  \/ \E t \in Tasks : WebflowPost(t)
  \/ \E t \in Tasks : WebflowSleep(t)
  \/ \E t \in Tasks : WebflowRespond(t)
  \/ \E t \in Tasks : AddLoad(t)
  \/ \E t \in Tasks : AddOpen(t)
  \/ \E t \in Tasks : AddSave(t)

\* Calls made one after another.
PubSeqNext == PubCall \/ PubStep

\* Two calls of _post_with_retry are entered together (line 185).
RetryInit ==
  /\ manifest = [p \in ManifestPaths |-> <<>>]
  /\ truncated = [p \in ManifestPaths |-> FALSE]
  /\ pubfiles = {}
  /\ apiCalls = <<>>
  /\ \E a \in [Tasks -> PubArticles] :
       task = [t \in Tasks |->
                 [IdleTask EXCEPT
                    !.backend = "webflow", !.article = a[t], !.pc = "post",
                    !.attempt = 1,
                    !.start = [manifest |-> [p \in ManifestPaths |-> <<>>],
                               files |-> {}, posts |-> 0]]]
  /\ pcalls = <<>>

\* The steps of _post_with_retry.
RetryNext ==
  \/ \E t \in Tasks : WebflowPost(t)
  \/ \E t \in Tasks : WebflowSleep(t)

(***************************************************************************)
(* scrapers/base.py: BaseScraper.can_fetch, _rate_limit, fetch and         *)
(* fetch_with_playwright.  Times are in half seconds.                      *)
(***************************************************************************)
\* The most fetches made one after another.
MaxFetches == 2

\* min_delay and max_delay (1.0 and 2.0 seconds), in half seconds.
min_delay == 2

max_delay == 4

\* The paths of the urls fetched, as their segments.
ScraperUrls == {<<"articles">>, <<"admin">>, <<"admin", "settings">>}

\* _robot_parser: not loaded yet (None), or the path prefixes that the
\* site's robots.txt disallows for the scraper: none, /admin, or /.
NoParser == [loaded |-> FALSE, disallow |-> {}]
Parser(rules) == [loaded |-> TRUE, disallow |-> rules]

RobotParsers == {NoParser, Parser({}), Parser({<<"admin">>}), Parser({<<>>})}

\* can_fetch: True without a parser, else what the parser says: no
\* disallowed prefix is a prefix of the url's path.
can_fetch(url) ==
  IF ~robots.loaded THEN TRUE
  ELSE ~\E rule \in robots.disallow :
          Len(rule) <= Len(url) /\ SubSeq(url, 1, Len(rule)) = rule

NoFetch ==
  [kind |-> "", url |-> <<>>, delay |-> 0, waited |-> <<>>, requests |-> 0,
   last_before |-> 0]

ScraperInit ==
  /\ robots \in RobotParsers
  /\ last_request_time = 0
  /\ clock \in {0, 3}
  /\ fpc = "idle"
  /\ fcur = NoFetch
  /\ fcalls = <<>>
  /\ fetched = <<>>

\* The scraper is not running.
ScraperIdle ==
  /\ robots = NoParser
  /\ last_request_time = 0
  /\ clock = 0
  /\ fpc = "off"
  /\ fcur = NoFetch
  /\ fcalls = <<>>
  /\ fetched = <<>>

\* The call is over, with outcome out.
FetchFinish(out, cur) ==
  /\ fpc' = "idle"
  /\ fcur' = NoFetch
  /\ fcalls' = Append(fcalls, [kind |-> cur.kind, url |-> cur.url,
                               waited |-> cur.waited, requests |-> cur.requests,
                               last_before |-> cur.last_before,
                               last_after |-> last_request_time',
                               refused |-> out.raised = "ValueError",
                               outcome |-> out])

\* fetch or fetch_with_playwright is called, some time after the call
\* before.
FetchCall ==
  /\ fpc = "idle"
  /\ Len(fcalls) < MaxFetches
  /\ \E kind \in {"fetch", "fetch_with_playwright"}, url \in ScraperUrls :
       fcur' = [NoFetch EXCEPT !.kind = kind, !.url = url,
                               !.last_before = last_request_time]
  /\ \E passed \in {0, max_delay} : clock' = clock + passed
  /\ fpc' = "check"
  /\ UNCHANGED <<robots, last_request_time, fcalls, fetched>>
  /\ UNCHANGED <<dedupVars, seoVars, simVars, engineVars, orchVars>>

\* The refusal made after the wait of the rate limit.
RefuseAfterWait ==
  /\ last_request_time' = clock
  /\ FetchFinish(Raised("ValueError", <<"URL disallowed by robots.txt: {}", fcur.url>>),
                 [fcur EXCEPT !.waited = <<min_delay>>])

\* Lines 106-107 and 118-119: raise ValueError.
Refuse ==
  /\ last_request_time' = last_request_time
  /\ FetchFinish(Raised("ValueError", <<"URL disallowed by robots.txt: {}", fcur.url>>),
                 fcur)

\* Lines 106-108 and 118-120: the robots.txt test; a url that passes goes
\* on to _rate_limit, which draws its delay (lines 90-92).
FetchCheck ==
  /\ fpc = "check"
  /\ IF ~can_fetch(fcur.url)
     THEN Refuse
     ELSE /\ \E delay \in min_delay..max_delay :
               fcur' = [fcur EXCEPT !.delay = delay]
          /\ fpc' = "rate"
          /\ UNCHANGED <<last_request_time, fcalls>>
  /\ UNCHANGED <<robots, clock, fetched>>
  /\ UNCHANGED <<dedupVars, seoVars, simVars, engineVars, orchVars>>

\* Lines 93-95: _rate_limit sleeps for what is left of the delay, then
\* sets _last_request_time to the time it is.
RateLimit ==
  /\ fpc = "rate"
  /\ LET elapsed == clock - last_request_time
         wait == IF elapsed < fcur.delay THEN fcur.delay - elapsed ELSE 0
     IN  /\ clock' = clock + wait
         /\ fcur' = [fcur EXCEPT
                       !.waited = IF wait > 0 THEN Append(fcur.waited, wait)
                                  ELSE fcur.waited]
  /\ last_request_time' = clock'
  /\ fpc' = "request"
  /\ UNCHANGED <<robots, fcalls, fetched>>
  /\ UNCHANGED <<dedupVars, seoVars, simVars, engineVars, orchVars>>

\* Lines 109-111 and 121-129: the HTTP request, whose error status
\* raise_for_status raises, or the page rendered by the browser.
FetchRequest ==
  /\ fpc = "request"
  /\ fetched' = Append(fetched, [kind |-> fcur.kind, url |-> fcur.url])
  /\ UNCHANGED <<robots, clock, last_request_time>>
  /\ \E status \in {200, 404} :
       FetchFinish(IF fcur.kind = "fetch" /\ status >= 400
                   THEN Raised("HTTPStatusError", status)
                   ELSE Returned(IF fcur.kind = "fetch" THEN status ELSE "html"),
                   [fcur EXCEPT !.requests = fcur.requests + 1])
  /\ UNCHANGED <<dedupVars, seoVars, simVars, engineVars, orchVars>>

ScraperNext ==
  \/ FetchCall
  \/ FetchCheck
  \/ RateLimit
  \/ FetchRequest

\* The callers of the core, the publishers and the scraper are not running.
OrchIdle == PipeIdle /\ MainIdle /\ PubIdle /\ ScraperIdle

\* The deduplicator alone.
DedupOnly == DedupInit /\ SEOIdle /\ SimIdle /\ EngineIdle /\ OrchIdle

DedupSpec == DedupOnly /\ [][DedupNext]_vars

\* The validator alone.
SEOOnly == SEOInit /\ DedupIdle /\ SimIdle /\ EngineIdle /\ OrchIdle

SEOSpec == SEOOnly /\ [][SEONext]_vars

\* Two calls of the validator, one after the other.
SEOPairOnly == SEOPairInit /\ DedupIdle /\ SimIdle /\ EngineIdle /\ OrchIdle

SEOPairSpec == SEOPairOnly /\ [][SEOPairNext]_vars

\* The comparison of two titles alone.
SimOnly == SimInit /\ DedupIdle /\ SEOIdle /\ EngineIdle /\ OrchIdle

SimSpec == SimOnly /\ [][SimNext]_vars

\* The engine alone: it calls the validator.
EngineOnly == EngineInit /\ DedupIdle /\ SEOIdle /\ SimIdle /\ OrchIdle

EngineSpec == EngineOnly /\ [][EngineNext]_vars

\* validate is entered with arguments at the edges: an empty and a good
\* title and meta description, an empty body, a complete one and one of
\* near misses, and every keyword argument of the model.
SEOEdgeInit ==
  /\ title \in {<<>>, Rep("T", TITLE_MIN_LEN)}
  /\ meta_description \in {<<>>, Rep("m", META_MIN_LEN)}
  /\ body \in {<<>>, NearMissBody, MakeBody(2, TRUE, 494, TRUE)}
  /\ keywords \in KeywordLists
  /\ issues = <<>>
  /\ total_points = 0
  /\ max_points = 0
  /\ awarded = <<>>
  /\ spc = "title"
  /\ result = [passed |-> FALSE, score |-> 0, issues |-> <<>>]
  /\ reports = <<>>

\* The validator called directly or by the engine.
ValidateInit ==
  \/ EngineInit /\ DedupIdle /\ SEOIdle /\ SimIdle /\ OrchIdle
  \/ SEOEdgeInit /\ DedupIdle /\ SimIdle /\ EngineIdle /\ OrchIdle

ValidateSpec == ValidateInit /\ [][EngineNext]_vars

\* The pipeline alone.
PipeOnly == PipeInit /\ DedupIdle /\ SEOIdle /\ SimIdle /\ EngineIdle /\ MainIdle /\ PubIdle /\ ScraperIdle

PipeSpec == PipeOnly /\ [][PipeNext]_vars

\* run_rewriter alone.
MainOnly == MainInit /\ DedupIdle /\ SEOIdle /\ SimIdle /\ EngineIdle /\ PipeIdle /\ PubIdle /\ ScraperIdle

MainSpec == MainOnly /\ [][MainNext]_vars

\* The core is not running.
CoreIdle == DedupIdle /\ SEOIdle /\ SimIdle /\ EngineIdle

\* Publish calls made one after another.
PubSeqOnly == PubIdle /\ CoreIdle /\ PipeIdle /\ MainIdle /\ ScraperIdle

PubSeqSpec == PubSeqOnly /\ [][PubSeqNext]_vars

\* Two calls that run concurrently.
PubConcOnly == PubConcInit /\ CoreIdle /\ PipeIdle /\ MainIdle /\ ScraperIdle

PubConcSpec == PubConcOnly /\ [][PubStep]_vars

\* _post_with_retry alone.  Every request is answered and every sleep
\* ends, so a call that can take a step takes it.
RetryOnly == RetryInit /\ CoreIdle /\ PipeIdle /\ MainIdle /\ ScraperIdle

RetrySpec ==
  /\ RetryOnly
  /\ [][RetryNext]_vars
  /\ \A t \in Tasks : WF_vars(WebflowPost(t)) /\ WF_vars(WebflowSleep(t))

\* The scraper alone.
ScraperOnly == ScraperInit /\ CoreIdle /\ PipeIdle /\ MainIdle /\ PubIdle

ScraperSpec == ScraperOnly /\ [][ScraperNext]_vars

\* The components together.
Init ==
  \/ DedupOnly
  \/ SimOnly
  \/ PipeOnly
  \/ MainOnly
  \/ PubSeqOnly
  \/ PubConcOnly
  \/ ScraperOnly
  \/ EngineOnly
  \/ SEOOnly

Next ==
  \/ DedupNext
  \/ SEONext
  \/ SimNext
  \/ EngineNext
  \/ PipeNext
  \/ MainNext
  \/ PubSeqNext
  \/ ScraperNext

Spec == Init /\ [][Next]_vars

(***************************************************************************)
(* Properties of the deduplicator.                                         *)
(***************************************************************************)
UrlOf(r) == Get(r, "url", "")

TitleOf(r) == Get(r, "title", <<>>)

\* The positions of articles accepted so far, and those dropped so far.
Kept == Range(keptIdx)

Dropped == (1..(pos - 1)) \ Kept

\* The exact similarity of two titles as a fraction: matched characters
\* (counted twice) over the total length, on the case-folded titles.
MatchMemo ==
  {<<a, b, 2 * MatchCount(lower(a), lower(b), 1, Len(a) + 1, 1, Len(b) + 1)>> :
     a \in Titles \ {<<>>}, b \in Titles \ {<<>>}}

Matched2(a, b) == (CHOOSE t \in MatchMemo : t[1] = a /\ t[2] = b)[3]

\* similarity >= 85/100, = 85/100, in exact arithmetic
SimilarTitles(a, b) ==
  a # <<>> /\ b # <<>> /\ 100 * Matched2(a, b) >= 85 * (Len(a) + Len(b))

AtThreshold(a, b) ==
  a # <<>> /\ b # <<>> /\ 100 * Matched2(a, b) = 85 * (Len(a) + Len(b))

SameUrl(r, q) == UrlOf(r) # "" /\ UrlOf(r) = UrlOf(q)

Matches(r, q) == SameUrl(r, q) \/ SimilarTitles(TitleOf(r), TitleOf(q))

\* The elements of l at the positions S, in increasing order of position.
Select(l, S) ==
  [k \in 1..Cardinality(S) |->
     l[CHOOSE i \in S : Cardinality({j \in S : j <= i}) = k]]

IsSubsequence(u, l) == \E S \in SUBSET (1..Len(l)) : u = Select(l, S)

\* C1: the accepted list is a subsequence of the input read so far (every
\* accepted record is an input record, in input order), the first record of
\* a non-empty input is kept, and an empty input returns an empty list.
C1_Subsequence ==
  /\ IsSubsequence(unique, SubSeq(articles, 1, pos - 1))
  /\ pos > 1 => unique # <<>> /\ unique[1] = articles[1]
  /\ dpc = "done" /\ articles = <<>> => unique = <<>>

\* A call returned the first and third of three records, the second one
\* dropped, the two kept ones different.
C1_Witness ==
  /\ dpc = "done"
  /\ Len(articles) = 3
  /\ keptIdx = <<1, 3>>
  /\ unique = <<articles[1], articles[3]>>
  /\ articles[1] # articles[3]

\* C2: a record that matches (by url or by title) an earlier dropped record
\* and no earlier accepted record is kept.
C2_DroppedNotCompared ==
  \A k \in 1..(pos - 1) :
    /\ \E j \in Dropped : j < k /\ Matches(articles[k], articles[j])
    /\ \A j \in Kept : j < k => ~Matches(articles[k], articles[j])
    => k \in Kept

\* A kept record has the title of an earlier dropped record.
C2_Witness ==
  /\ dpc = "done"
  /\ \E k \in Kept : \E j \in Dropped :
       /\ j < k
       /\ SimilarTitles(TitleOf(articles[k]), TitleOf(articles[j]))

\* C3: a record whose non-empty url is the url of an accepted record is
\* dropped, so no two accepted records have the same non-empty url.
C3_UrlUnique ==
  /\ \A k \in 1..(pos - 1) :
       (\E j \in Kept : j < k /\ SameUrl(articles[k], articles[j]))
       => k \in Dropped
  /\ \A i, j \in 1..Len(unique) :
       i < j /\ UrlOf(unique[i]) # "" => UrlOf(unique[i]) # UrlOf(unique[j])

\* A record is dropped for its url alone: its title is not empty and is
\* similar to no accepted title.
C3_Witness ==
  /\ dpc = "done"
  /\ \E k \in Dropped :
       /\ TitleOf(articles[k]) # <<>>
       /\ \E j \in Kept : j < k /\ SameUrl(articles[k], articles[j])
       /\ \A j \in Kept : TitleOf(articles[j]) # <<>>
                          /\ ~SimilarTitles(TitleOf(articles[k]), TitleOf(articles[j]))

\* C4: a record is dropped when an accepted record has a title of similarity
\* >= 0.85 to its title (0.85 included), whatever the urls; a record with no
\* url match and every similarity below 0.85 is kept.
C4_TitleThreshold ==
  \A k \in 1..(pos - 1) :
    /\ (\E j \in Kept :
          j < k /\ SimilarTitles(TitleOf(articles[k]), TitleOf(articles[j])))
       => k \in Dropped
    /\ (\A j \in Kept : j < k => ~Matches(articles[k], articles[j]))
       => k \in Kept

\* A record is dropped for a title of similarity exactly 0.85 to an accepted
\* one: the urls are non-empty and differ, and no other accepted record
\* matches it.
C4_Witness ==
  /\ dpc = "done"
  /\ \E k \in Dropped : \E j \in Kept :
       /\ j < k
       /\ AtThreshold(TitleOf(articles[k]), TitleOf(articles[j]))
       /\ UrlOf(articles[k]) # "" /\ UrlOf(articles[j]) # ""
       /\ UrlOf(articles[k]) # UrlOf(articles[j])
       /\ \A i \in Kept \ {j} : ~Matches(articles[k], articles[i])

\* C5: deduplicating the list a call returned returns that list.
C5_Idempotent ==
  Len(calls) = 2 =>
    /\ calls[2].arg = calls[1].result
    /\ calls[2].result = calls[1].result

\* The second call returned, on a list of two or more records from which
\* the first call had dropped something.
C5_Witness ==
  /\ Len(calls) = 2
  /\ Len(calls[1].result) >= 2
  /\ Len(calls[1].arg) > Len(calls[1].result)

\* C6: a record whose url and title are both empty or absent is never
\* dropped.
C6_EmptyKept ==
  \A k \in 1..(pos - 1) :
    UrlOf(articles[k]) = "" /\ TitleOf(articles[k]) = <<>> => k \in Kept

\* Two records with neither url nor title, one with the keys absent and one
\* with them empty, follow each other and both are kept.
C6_Witness ==
  /\ dpc = "done"
  /\ \E k \in Kept :
       /\ k > 1
       /\ k - 1 \in Kept
       /\ articles[k - 1] = [source |-> "s", url |-> "", title |-> <<>>]
       /\ articles[k] = [source |-> "s"]

(***************************************************************************)
(* Properties of the SEO validator.                                        *)
(***************************************************************************)
\* The maximum of each criterion, in the order of evaluation.
CriterionMax == <<20, 20, 20, 20, 10, 10>>

\* The criterion a message belongs to.
CriterionOf(text) ==
  CASE text = "Title length is {} chars (target: {}-{})" -> 1
    [] text = "Meta description length is {} chars (target: {}-{})" -> 2
    [] text = "Found {} H2 headings (minimum: {})" -> 3
    [] text = "Word count is {} (minimum: {})" -> 4
    [] text = "Missing keywords: {}" -> 5
    [] text = "No target keywords found in body" -> 5
    [] text = "Missing {{novig_internal_link}} placeholder" -> 6
    [] OTHER -> 0

\* The sum of a sequence of numbers.
RECURSIVE Sum(_)
Sum(l) == IF l = <<>> THEN 0 ELSE l[1] + Sum(Tail(l))

\* The criteria evaluated so far that did not get their full points.
Partial == {k \in 1..Len(awarded) : awarded[k] < CriterionMax[k]}

\* C7: the score returned is an integer from 0 to 100 and passed is true
\* exactly when the score is at least 70.
C7_ScoreRange ==
  spc = "done" =>
    /\ result.score \in 0..100
    /\ result.passed <=> result.score >= 70

\* A report with the score 70, passed.
C7_Witness == spc = "done" /\ result.score = 70 /\ result.passed

\* C8: max_points is 100 when all criteria are evaluated and the score
\* returned is the sum of the points the six criteria awarded.
C8_ScoreIsTotal ==
  spc = "done" =>
    /\ max_points = 100
    /\ Len(awarded) = 6
    /\ total_points = Sum(awarded)
    /\ result.score = total_points

\* C9: issues holds one message for each criterion evaluated so far that
\* did not get its full points, in the order of the criteria, and nothing
\* else; the report's issues are empty exactly when all six criteria got
\* full points, exactly when the score is 100.
C9_Issues ==
  /\ Len(issues) = Cardinality(Partial)
  /\ \A n \in 1..Len(issues) :
       LET k == CriterionOf(issues[n].text)
       IN  k \in Partial /\ Cardinality({j \in Partial : j <= k}) = n
  /\ spc = "done" =>
       /\ result.issues = issues
       /\ result.issues = <<>> <=> \A k \in 1..6 : awarded[k] = CriterionMax[k]
       /\ result.issues = <<>> <=> result.score = 100

\* A report whose issues are those of the meta description, the word count
\* and the placeholder, the other three criteria having full points.
C9_Witness ==
  /\ spc = "done"
  /\ awarded = <<20, 5, 20, 14, 10, 0>>
  /\ Len(result.issues) = 3

\* Whether each keyword of the model occurs in each body of the model, both
\* case-folded; computed once.
PresentMemo ==
  {<<kw, b, Contains(lower(kw), lower(b))>> : kw \in {KwNovig, KwBets, KwXyz}, b \in Bodies}

Present(kw, b) == (CHOOSE t \in PresentMemo : t[1] = kw /\ t[2] = b)[3]

\* The issues of the keyword criterion.
KeywordIssues == SelectSeq(issues, LAMBDA i : CriterionOf(i.text) = 5)

\* C10: the keyword criterion awards 10 points and no issue for an empty or
\* absent list and when every keyword occurs in the body, case-insensitively;
\* floor(found / total * 10) points and the list of the missing keywords, in
\* list order, when some but not all occur; 0 points and "No target keywords
\* found in body" when none of a non-empty list occurs.
C10_Keywords ==
  Len(awarded) >= 5 =>
    LET kws     == keywords.list
        found   == {k \in 1..Len(kws) : Present(kws[k], body)}
        missing == Select(kws, (1..Len(kws)) \ found)
    IN  IF kws = <<>> \/ Cardinality(found) = Len(kws)
        THEN awarded[5] = 10 /\ KeywordIssues = <<>>
        ELSE IF found # {}
        THEN /\ awarded[5] = (Cardinality(found) * 10) \div Len(kws)
             /\ KeywordIssues =
                  << Issue("Missing keywords: {}", <<Join(missing, <<",", " ">>)>>) >>
        ELSE /\ awarded[5] = 0
             /\ KeywordIssues = << Issue("No target keywords found in body", <<>>) >>

\* Two of three keywords occur in the body, one of them in another case
\* than the body has it: 6 points, and the missing keyword is listed.
C10_Witness ==
  /\ spc = "done"
  /\ keywords = List(<<KwXyz, KwNovig, KwBets>>)
  /\ awarded[5] = 6
  /\ KeywordIssues = << Issue("Missing keywords: {}", <<KwXyz>>) >>

\* The words of a body, counted at their ends: the non-whitespace
\* characters followed by whitespace or by the end of the body.
WordEnds(b) ==
  Cardinality({i \in 1..Len(b) :
                 /\ b[i] \notin Whitespace
                 /\ i = Len(b) \/ b[i + 1] \in Whitespace})

\* The word counts of the model's bodies, computed once.
WordsMemo == {<<b, WordEnds(b)>> : b \in Bodies \cup PairBodies}

Words(b) ==
  IF \E t \in WordsMemo : t[1] = b
  THEN (CHOOSE t \in WordsMemo : t[1] = b)[2]
  ELSE WordEnds(b)

\* The issues of the word-count criterion.
WordIssues == SelectSeq(issues, LAMBDA i : CriterionOf(i.text) = 4)

\* C11: the word-count criterion awards 20 points and no issue when the
\* body has at least 500 whitespace-delimited words, and otherwise
\* min(floor(words * 15 / 500), 15) points with the issue "Word count is N
\* (minimum: 500)".
C11_WordCount ==
  Len(awarded) >= 4 =>
    LET n == Words(body)
    IN  IF n >= 500
        THEN awarded[4] = 20 /\ WordIssues = <<>>
        ELSE /\ awarded[4] = Min((n * 15) \div 500, 15)
             /\ WordIssues = << Issue("Word count is {} (minimum: {})", <<n, 500>>) >>

\* A body of 499 words got 14 points (499/500*15 is 14.97) and its issue.
C11_Witness ==
  /\ spc = "done"
  /\ Words(body) = 499
  /\ awarded[4] = 14
  /\ WordIssues = << Issue("Word count is {} (minimum: {})", <<499, 500>>) >>

\* What each body of the model was built with: its heading lines and
\* whether it has the placeholder.
BodyFacts ==
  {<<MakeBody(h, k, n, p), h, p>> :
     h \in 0..MaxH2, k \in BOOLEAN, n \in FillerWords, p \in BOOLEAN}
    \cup {<<NearMissBody, 1, FALSE>>}

HeadingLines(b) == (CHOOSE t \in BodyFacts : t[1] = b)[2]

HasMarker(b) == (CHOOSE t \in BodyFacts : t[1] = b)[3]

\* The issues of one criterion.
IssuesOf(k) == SelectSeq(issues, LAMBDA i : CriterionOf(i.text) = k)

\* C13: the heading criterion awards 20 points and no issue when the body
\* has at least 2 lines starting with "## ", and otherwise min(count*10, 15)
\* points, which is 0 or 10 and below 20, with the issue "Found N H2
\* headings (minimum: 2)".
C13_Headings ==
  Len(awarded) >= 3 =>
    LET n == HeadingLines(body)
    IN  IF n >= 2
        THEN awarded[3] = 20 /\ IssuesOf(3) = <<>>
        ELSE /\ awarded[3] = Min(n * 10, 15)
             /\ awarded[3] = (IF n = 0 THEN 0 ELSE 10)
             /\ awarded[3] < 20
             /\ IssuesOf(3) =
                  << Issue("Found {} H2 headings (minimum: {})", <<n, 2>>) >>

\* The body with one heading line among lines that nearly are headings got
\* 10 points and the issue "Found 1 H2 headings (minimum: 2)".
C13_Witness ==
  /\ spc = "done"
  /\ body = NearMissBody
  /\ awarded[3] = 10
  /\ IssuesOf(3) = << Issue("Found {} H2 headings (minimum: {})", <<1, 2>>) >>

\* C14: the title criterion (30 to 70 characters, bounds included) and the
\* meta description criterion (120 to 170, bounds included) each award 20
\* points and no issue for a length in the range, and otherwise the length
\* issue with 5 points for a non-empty string and 0 for an empty one.
C14_Lengths ==
  /\ Len(awarded) >= 1 =>
        IF 30 <= Len(title) /\ Len(title) <= 70
        THEN awarded[1] = 20 /\ IssuesOf(1) = <<>>
        ELSE /\ awarded[1] = (IF title # <<>> THEN 5 ELSE 0)
             /\ IssuesOf(1) = << Issue("Title length is {} chars (target: {}-{})",
                                       <<Len(title), 30, 70>>) >>
  /\ Len(awarded) >= 2 =>
        IF 120 <= Len(meta_description) /\ Len(meta_description) <= 170
        THEN awarded[2] = 20 /\ IssuesOf(2) = <<>>
        ELSE /\ awarded[2] = (IF meta_description # <<>> THEN 5 ELSE 0)
             /\ IssuesOf(2) =
                  << Issue("Meta description length is {} chars (target: {}-{})",
                           <<Len(meta_description), 120, 170>>) >>

\* A title of 71 characters got 5 points and its issue, a meta description
\* of 170 characters got 20 points and none.
C14_Witness ==
  /\ spc = "done"
  /\ Len(title) = 71 /\ awarded[1] = 5 /\ IssuesOf(1) # <<>>
  /\ Len(meta_description) = 170 /\ awarded[2] = 20 /\ IssuesOf(2) = <<>>

\* C15: the placeholder criterion awards 10 points and no issue when the
\* body contains {{novig_internal_link}}, and 0 points with the issue
\* "Missing {{novig_internal_link}} placeholder" otherwise; a report with
\* the other five criteria at their maximum has the score 100 with the
\* marker, and without it the score 90 and that issue only.
C15_Placeholder ==
  LET missing == Issue("Missing {{novig_internal_link}} placeholder", <<>>)
  IN  /\ Len(awarded) = 6 =>
            IF HasMarker(body)
            THEN awarded[6] = 10 /\ IssuesOf(6) = <<>>
            ELSE awarded[6] = 0 /\ IssuesOf(6) = <<missing>>
      /\ spc = "done" /\ (\A k \in 1..5 : awarded[k] = CriterionMax[k]) =>
            IF HasMarker(body)
            THEN result.score = 100 /\ result.issues = <<>>
            ELSE result.score = 90 /\ result.issues = <<missing>>

\* A report with everything but the placeholder: score 90, one issue.
C15_Witness ==
  /\ spc = "done"
  /\ awarded = <<20, 20, 20, 20, 10, 0>>
  /\ result.score = 90
  /\ result.issues = << Issue("Missing {{novig_internal_link}} placeholder", <<>>) >>

\* The issues of one criterion in a list of issues.
IssuesIn(iss, k) == SelectSeq(iss, LAMBDA i : CriterionOf(i.text) = k)

\* C12: of two calls, the one whose body has at least as many words gets at
\* least as many points from the word-count criterion, whatever the other
\* inputs are; so too from 499 to 500 words.
C12_Monotone ==
  Len(reports) = 2 =>
    (Words(reports[1].body) <= Words(reports[2].body)
       => reports[1].awarded[4] <= reports[2].awarded[4])

\* Two calls with the same title, meta description and keywords, whose
\* bodies differ in one word: 499 words got 14 points, 500 words 20.
C12_Witness ==
  /\ Len(reports) = 2
  /\ reports[1].title = reports[2].title
  /\ reports[1].meta_description = reports[2].meta_description
  /\ reports[1].keywords = reports[2].keywords
  /\ reports[1].body = MakeBody(1, FALSE, 497, FALSE)
  /\ reports[2].body = MakeBody(1, FALSE, 498, FALSE)
  /\ Words(reports[1].body) = 499 /\ reports[1].awarded[4] = 14
  /\ Words(reports[2].body) = 500 /\ reports[2].awarded[4] = 20

\* The input of each criterion in a call.
InputOf(r, k) ==
  CASE k = 1 -> <<r.title>>
    [] k = 2 -> <<r.meta_description>>
    [] k = 5 -> <<r.body, r.keywords>>
    [] OTHER -> <<r.body>>

\* C16: every call that returns has evaluated all six criteria; two calls
\* that agree on the input of a criterion give it the same points and the
\* same issue, whatever the other inputs are; two calls with the same four
\* arguments return the same report.
C16_Independent ==
  /\ \A n \in 1..Len(reports) : Len(reports[n].awarded) = 6
  /\ Len(reports) = 2 =>
       /\ \A k \in 1..6 :
            InputOf(reports[1], k) = InputOf(reports[2], k) =>
              /\ reports[1].awarded[k] = reports[2].awarded[k]
              /\ IssuesIn(reports[1].result.issues, k)
                   = IssuesIn(reports[2].result.issues, k)
       /\ (\A k \in 1..6 : InputOf(reports[1], k) = InputOf(reports[2], k))
            => reports[1].result = reports[2].result

\* Two calls with the same good meta description, the first with an empty
\* title and the second with a good one, and different bodies: the meta
\* description got 20 points in both, after an issue in the first.
C16_Witness ==
  /\ Len(reports) = 2
  /\ reports[1].title = <<>> /\ reports[2].title # <<>>
  /\ reports[1].body # reports[2].body
  /\ reports[1].meta_description = reports[2].meta_description
  /\ reports[1].awarded[1] = 0 /\ reports[2].awarded[1] = 20
  /\ reports[1].awarded[2] = 20 /\ reports[2].awarded[2] = 20

(***************************************************************************)
(* Properties of the title similarity.                                     *)
(***************************************************************************)
FloatOne == FloatDiv(1, 1)

\* The characters of a title, case-folded.
CharsOf(t) == {LowerChar(t[k]) : k \in 1..Len(t)}

\* C18: the similarity of (a, b) is the similarity of (b, a), and the
\* record titled a is a title duplicate of the one titled b exactly when
\* the one titled b is a title duplicate of the one titled a.
C18_Symmetric ==
  Len(sims) = 2 =>
    /\ sims[1].ratio = sims[2].ratio
    /\ sims[1].dup = sims[2].dup

\* C19 as stated: the similarity lies in [0,1], is 1.0 for titles that are
\* equal after case-folding, which makes records with such non-empty titles
\* duplicates whatever their urls, and is 0 for titles with no character in
\* common.
C19_AsStated ==
  \A n \in 1..Len(sims) :
    LET c == sims[n]
    IN  /\ FloatGe(c.ratio, FloatZero) /\ FloatGe(FloatOne, c.ratio)
        /\ lower(c.a) = lower(c.b) => c.ratio = FloatOne
        /\ lower(c.a) = lower(c.b) /\ c.a # <<>> => c.dup
        /\ CharsOf(c.a) \cap CharsOf(c.b) = {} => c.ratio = FloatZero

\* C19, amended: as stated, but the similarity of two titles with no
\* character in common is 0 unless both are empty (two empty titles are
\* equal, and their similarity is 1.0).
C19_Similarity ==
  \A n \in 1..Len(sims) :
    LET c == sims[n]
    IN  /\ FloatGe(c.ratio, FloatZero) /\ FloatGe(FloatOne, c.ratio)
        /\ lower(c.a) = lower(c.b) => c.ratio = FloatOne
        /\ lower(c.a) = lower(c.b) /\ c.a # <<>> => c.dup
        /\ CharsOf(c.a) \cap CharsOf(c.b) = {} /\ (c.a # <<>> \/ c.b # <<>>)
             => c.ratio = FloatZero

\* Two titles that differ in case only were compared: similarity 1.0, and
\* duplicates although the urls differ.
C19_Witness ==
  /\ Len(sims) = 2
  /\ sa = TitleP
  /\ sb # sa /\ lower(sb) = lower(sa)
  /\ sims[1].ratio = FloatOne /\ sims[1].dup
  /\ sims[2].ratio = FloatOne /\ sims[2].dup

(***************************************************************************)
(* Properties of the rewriting engine.                                     *)
(***************************************************************************)
\* The response has a line that starts with the label.
HasLabel(text, label) ==
  \E i \in 1..Len(text) : LineStart(text, i) /\ StartsAt(text, i, label)

\* The six issues of an article with nothing in it.
EmptyIssues ==
  << Issue("Title length is {} chars (target: {}-{})", <<0, 30, 70>>),
     Issue("Meta description length is {} chars (target: {}-{})", <<0, 120, 170>>),
     Issue("Found {} H2 headings (minimum: {})", <<0, 2>>),
     Issue("Word count is {} (minimum: {})", <<0, 500>>),
     Issue("No target keywords found in body", <<>>),
     Issue("Missing {{novig_internal_link}} placeholder", <<>>) >>

\* The step validate is at after n criteria.
StageAfter(n) ==
  CASE n = 0 -> {"title"}
    [] n = 1 -> {"meta"}
    [] n = 2 -> {"h2"}
    [] n = 3 -> {"words"}
    [] n = 4 -> {"keywords"}
    [] n = 5 -> {"link"}
    [] n = 6 -> {"score", "done"}

\* C17: a call of validate goes through its six criteria, whatever the
\* title, the meta description, the body and the keywords are (empty
\* strings, an empty list and no list included): nothing ends it before
\* the sixth, it returns a report, and the engine raises nothing once it
\* has called validate; a field that the LLM response does not have is
\* validated as the empty string; empty title, meta description and body
\* with a non-empty keyword list give score 0, not passed, and the six
\* issues.
C17_NeverFails ==
  /\ spc # "off" => spc \in StageAfter(Len(awarded))
  /\ spc = "done" =>
       /\ result.score \in 0..100
       /\ result.passed \in BOOLEAN
       /\ result.issues = issues
       /\ reports # <<>> /\ reports[Len(reports)].result = result
  /\ epc = "raised" => spc = "off" /\ outcome.raised \in {"ValueError", "APIError"}
  /\ epc \in {"save", "done"} =>
       outcome.raised = "" /\ outcome.value.seo_result = result
  /\ spc = "done" /\ title = <<>> /\ meta_description = <<>> /\ body = <<>>
       /\ keywords.list # <<>> =>
       result = [passed |-> FALSE, score |-> 0, issues |-> EmptyIssues]
  /\ epc \in {"validate", "save", "done"} =>
       /\ ~HasLabel(response, TitleLabel) => title = <<>>
       /\ ~HasLabel(response, MetaLabel) => meta_description = <<>>
       /\ ~HasLabel(response, BodyLabel) => body = <<>>

\* The engine got a response with none of the three fields and returned
\* the report of an empty article.
C17_Witness ==
  /\ epc = "done"
  /\ response # <<>>
  /\ ~HasLabel(response, TitleLabel)
  /\ ~HasLabel(response, MetaLabel)
  /\ ~HasLabel(response, BodyLabel)
  /\ outcome.value.seo_result = [passed |-> FALSE, score |-> 0, issues |-> EmptyIssues]

\* C20: for each of the four content types the engine has its template;
\* for any other key get_template raises ValueError "Unknown content type",
\* no template is substituted, and the engine has raised that error with no
\* request sent to the LLM, validate not called and nothing written.
C20_UnknownType ==
  epc # "rewrite" =>
    IF content_type \in {"best_bets", "player_props", "odds_analysis", "predictions"}
    THEN /\ outcome.raised # "ValueError"
         /\ template = (CASE content_type = "best_bets" -> "BEST_BETS_TEMPLATE"
                          [] content_type = "player_props" -> "PLAYER_PROPS_TEMPLATE"
                          [] content_type = "odds_analysis" -> "ODDS_ANALYSIS_TEMPLATE"
                          [] content_type = "predictions" -> "PREDICTIONS_TEMPLATE")
    ELSE /\ epc = "raised"
         /\ outcome.raised = "ValueError"
         /\ outcome.value[1] = "Unknown content type '{}'. Must be one of: {}"
         /\ outcome.value[2] = content_type
         /\ template = ""
         /\ requests = <<>>
         /\ spc = "off"
         /\ files = {}

\* rewrite_and_save was called with the content type "not_real" and raised.
C20_Witness ==
  /\ epc = "raised"
  /\ save
  /\ content_type = "not_real"
  /\ outcome.raised = "ValueError"
  /\ requests = <<>>
  /\ files = {}

(***************************************************************************)
(* Properties of PipelineProcessor.run and process_article.                *)
(***************************************************************************)
\* The positions logged for a step, in the order they were logged.
StepsOf(step) ==
  LET sel == SelectSeq(plog, LAMBDA e : e[1] = step)
  IN  [i \in 1..Len(sel) |-> sel[i][2]]

\* The rewrite of the article at position i ended in an exception: the
\* engine never came to score it.
RewriteRaised(i) == i < ppos /\ \A j \in 1..Len(plog) : plog[j] # <<"score", i>>

\* C22 as stated: process_article returns the result dict when the rewrite
\* succeeds and the article passes the SEO validation, and None when the
\* article fails it: what it returns for an article that was rewritten is
\* a dict whose seo_result.passed is true, or None.
C22_AsStated ==
  \A i \in 1..Len(preturns) :
    IF RewriteRaised(i) THEN preturns[i] = None
    ELSE preturns[i].isNone \/ preturns[i].list.seo_result.passed

\* C27: run attempts every deduplicated article exactly once, one at a
\* time and in deduplicated order (the rewrites logged are positions 1, 2,
\* ... of the deduplicated list, each scored and persisted before the next
\* starts); a rewrite that raises gives None and the later articles are
\* still attempted; run returns the results that are not None, in that
\* order; with no raw article it returns [] without any rewrite.
C27_Run ==
  /\ StepsOf("rewrite") = [i \in 1..Len(StepsOf("rewrite")) |-> i]
  /\ Len(StepsOf("rewrite")) <= Len(deduped)
  /\ \A j \in 1..Len(plog) :
       plog[j][1] \in {"score", "persist"} =>
         /\ j > 1
         /\ plog[j][2] = plog[j - 1][2]
         /\ plog[j - 1][1] = (IF plog[j][1] = "score" THEN "rewrite" ELSE "score")
  /\ Len(preturns) = ppos - 1
  /\ \A i \in 1..Len(preturns) : RewriteRaised(i) => preturns[i] = None
  /\ presults = [i \in 1..Len(presults) |->
                   SelectSeq(preturns, LAMBDA r : ~r.isNone)[i].list]
  /\ ppc = "done" =>
       /\ Len(StepsOf("rewrite")) = Len(deduped)
       /\ deduped = deduplicate(raw)
       /\ poutcome = List(presults)
       /\ raw = <<>> => poutcome = List(<<>>) /\ StepsOf("rewrite") = <<>>

\* run has returned two results after an article whose rewrite raised.
C27_Witness ==
  /\ ppc = "done"
  /\ Len(deduped) = 3
  /\ RewriteRaised(1)
  /\ preturns[1] = None
  /\ Len(poutcome.list) = 2

(***************************************************************************)
(* Properties of main.run_rewriter.                                        *)
(***************************************************************************)
\* The articles handed to the engine so far, in the order of the calls.
SentArticles ==
  LET sel == SelectSeq(mlog, LAMBDA e : e[1] = "rewrite")
  IN  [i \in 1..Len(sel) |-> msites[sel[i][2]].articles[sel[i][3]]]

\* The positions of the articles of site s logged for a step.
SiteSteps(step, s) ==
  {e[3] : e \in {x \in Range(mlog) : x[1] = step /\ x[2] = s}}

\* C21 as stated: the orchestration dedups before it rewrites and scores
\* before it persists: no article handed to the engine is a duplicate of
\* one handed to it before (the articles sent are a list that
\* deduplicate leaves as it is), and every file is written right after the
\* article was scored.
C21_AsStated ==
  /\ deduplicate(SentArticles) = SentArticles
  /\ \A j \in 1..Len(mlog) :
       mlog[j][1] = "persist" =>
         j > 1 /\ mlog[j - 1] = <<"score", mlog[j][2], mlog[j][3]>>

\* C30: an exception while a site's article is rewritten ends that site's
\* articles (the site's rewrites are its first k articles, the first k - 1
\* of them persisted, and the site is logged once), never leaves
\* run_rewriter, and the sites that follow are processed in full or up to
\* their own failure; every file written is still there.
C30_SiteFailure ==
  /\ mpc # "raised"
  /\ \A i, j \in 1..Len(mfailed) : mfailed[i] = mfailed[j] => i = j
  /\ \A j \in 1..(Len(mlog) - 1) : mlog[j][2] <= mlog[j + 1][2]
  /\ \A s \in 1..Len(msites) :
       s < msi =>
         LET n == Len(msites[s].articles)
         IN  IF s \in Range(mfailed)
             THEN \/ msites[s].file = "invalid" /\ SiteSteps("rewrite", s) = {}
                  \/ \E k \in 1..n :
                       /\ SiteSteps("rewrite", s) = 1..k
                       /\ SiteSteps("persist", s) = 1..(k - 1)
             ELSE /\ SiteSteps("rewrite", s) = 1..n
                  /\ SiteSteps("persist", s) = 1..n
  /\ mpc = "done" => msi = Len(msites) + 1
  /\ Len(mwritten) = Cardinality({j \in 1..Len(mlog) : mlog[j][1] = "persist"})
  /\ \A j \in 1..Len(mwritten) : \E f \in mfiles : f.path = mwritten[j]

\* run_rewriter has returned: the second article of the first site raised
\* after the first one was saved, and the article of the second site was
\* rewritten and saved.
C30_Witness ==
  /\ mpc = "done"
  /\ Len(msites) = 2
  /\ mfailed = <<1>>
  /\ SiteSteps("rewrite", 1) = {1, 2}
  /\ SiteSteps("persist", 1) = {1}
  /\ SiteSteps("persist", 2) = {1}
  /\ Cardinality(mfiles) >= 1

(***************************************************************************)
(* Properties of the publishers.                                           *)
(***************************************************************************)
\* The entries of slug in the articles of a manifest.
EntriesOf(data, slug) == {i \in 1..Len(data) : data[i].slug = slug}

\* The articles of the manifest, as a call of a backend found them.
ManifestAt(snapshot, backend) == snapshot.manifest[manifest_path(backend)]

\* C23: publish of an article whose slug is in the manifest returns the
\* slug, writes no file, sends no POST and leaves the manifest as it is, on
\* both backends; with calls made one after another, no manifest has two
\* entries of one slug.
C23_SkipPublished ==
  /\ \A i \in 1..Len(pcalls) :
       LET c == pcalls[i]
       IN  EntriesOf(ManifestAt(c.start, c.backend), c.slug) # {} =>
             /\ c.outcome = Returned(c.slug)
             /\ c.wrote = {}
             /\ c.resps = <<>>
             /\ c.end = c.start
  /\ \A p \in DOMAIN manifest, a \in PubArticles :
       Cardinality(EntriesOf(manifest[p], a.slug)) <= 1

\* An article was published to files, and published to files again.
C23_Witness ==
  /\ Len(pcalls) = 2
  /\ pcalls[1].backend = "file" /\ pcalls[2].backend = "file"
  /\ pcalls[1].slug = pcalls[2].slug
  /\ pcalls[1].wrote # {}
  /\ pcalls[2].outcome = Returned(pcalls[2].slug)
  /\ pubfiles = pcalls[1].wrote

\* C24: a call of WebflowPublisher.publish that sent a request adds its
\* entry to the manifest and returns the slug exactly when the last status
\* is 200, 201 or 202; for any other last status it raises RuntimeError and
\* the manifest is as before, without the slug; and a call for a slug that
\* is not in the manifest always sends a request.
C24_WebflowStatus ==
  \A i \in 1..Len(pcalls) :
    LET c == pcalls[i]
        before == ManifestAt(c.start, c.backend)
        after == ManifestAt(c.end, c.backend)
    IN  c.backend = "webflow" =>
          /\ EntriesOf(before, c.slug) = {} => c.resps # <<>>
          /\ c.resps # <<>> =>
               IF c.resps[Len(c.resps)] \in {200, 201, 202}
               THEN /\ c.outcome = Returned(c.slug)
                    /\ Len(after) = Len(before) + 1
                    /\ SubSeq(after, 1, Len(before)) = before
                    /\ after[Len(after)].slug = c.slug
               ELSE /\ c.outcome =
                         Raised("RuntimeError", <<c.resps[Len(c.resps)], c.slug>>)
                    /\ after = before
                    /\ EntriesOf(after, c.slug) = {}

\* A publish to Webflow ended with 429 after the retries, and the next
\* publish of the article sent a request again and succeeded.
C24_Witness ==
  /\ Len(pcalls) = 2
  /\ pcalls[1].backend = "webflow" /\ pcalls[2].backend = "webflow"
  /\ pcalls[1].slug = pcalls[2].slug
  /\ pcalls[1].resps = <<429, 429, 429>>
  /\ pcalls[1].outcome.raised = "RuntimeError"
  /\ pcalls[2].resps = <<201>>
  /\ EntriesOf(manifest[manifest_path("webflow")], pcalls[2].slug) # {}

\* The facts of a call of _post_with_retry: at most three requests, each
\* but the last answered 429, and the n-th wait of 2 * n seconds; once it
\* has returned, the last response is not a 429 and no wait followed it, or
\* it is the third 429.
RetryFacts(t) ==
  LET r == task[t].resps
      w == task[t].waits
  IN  /\ Len(r) <= 3
      /\ \A i \in 1..(Len(r) - 1) : r[i] = 429
      /\ w = [i \in 1..Len(w) |-> 2 * i]
      /\ Len(w) <= Len(r)
      /\ task[t].pc = "post" => Len(w) = Len(r) /\ Len(r) < 3
      /\ task[t].pc = "sleep" => Len(w) = Len(r) - 1 /\ r[Len(r)] = 429
      /\ task[t].pc = "respond" =>
           \/ r[Len(r)] # 429 /\ Len(w) = Len(r) - 1
           \/ r = <<429, 429, 429>> /\ Len(w) = 3

\* C26: _post_with_retry ends after at most three POSTs: a call that is
\* about to send a request comes to return a response, it returns the first
\* response that is not a 429 without another request, it waits 2.0
\* seconds times the attempt number after a 429, and after three 429s it
\* returns the third.
C26_Retry ==
  /\ [](\A t \in Tasks : RetryFacts(t))
  /\ [](Len(apiCalls) = Len(task[1].resps) + Len(task[2].resps))
  /\ \A t \in Tasks : (task[t].pc = "post") ~> (task[t].pc = "respond")

\* A call has returned the third 429, and the other one the 202 that
\* followed a 429.
C26_Witness ==
  /\ task[1].pc = "respond" /\ task[1].resps = <<429, 429, 429>>
  /\ task[1].waits = <<2, 4, 6>>
  /\ task[2].pc = "respond" /\ task[2].resps = <<429, 202>>
  /\ task[2].waits = <<2>>

\* C28 as stated: when two calls on the same manifest run concurrently,
\* after both are over the manifest has exactly one entry of every slug
\* that a call returned.
C28_AsStated ==
  (\A t \in Tasks : task[t].pc = "done") =>
    \A t \in Tasks :
      task[t].outcome.raised = "" =>
        Cardinality(EntriesOf(manifest[manifest_path(task[t].backend)],
                              task[t].article.slug)) = 1

\* The entries of a snapshot's manifests that a backend recorded for slug.
RecordedBy(snapshot, backend, slug) ==
  {e \in UNION {Range(snapshot.manifest[p]) : p \in DOMAIN snapshot.manifest} :
     /\ e.slug = slug
     /\ (IF backend = "file" THEN "path" ELSE "webflow_id") \in DOMAIN e}

\* C29: once a slug is recorded by one backend, publish of it on the other
\* backend is skipped: it returns the slug without a POST and without a
\* file; so no slug has both a published file and an accepted POST.
C29_SharedManifest ==
  /\ \A i \in 1..Len(pcalls) :
       LET c == pcalls[i]
           other == IF c.backend = "file" THEN "webflow" ELSE "file"
       IN  RecordedBy(c.start, other, c.slug) # {} =>
             /\ c.outcome = Returned(c.slug)
             /\ c.resps = <<>>
             /\ c.wrote = {}
             /\ c.end = c.start
  /\ \A a \in PubArticles :
       ~ /\ <<a.slug, ".html">> \in pubfiles
         /\ \E j \in 1..Len(apiCalls) :
              apiCalls[j].slug = a.slug /\ apiCalls[j].status \in {200, 201, 202}

\* An article was published to files and then to Webflow, which skipped
\* it.
C29_Witness ==
  /\ Len(pcalls) = 2
  /\ pcalls[1].backend = "file" /\ pcalls[2].backend = "webflow"
  /\ pcalls[1].slug = pcalls[2].slug
  /\ pcalls[1].wrote # {}
  /\ RecordedBy(pcalls[2].start, "file", pcalls[2].slug) # {}
  /\ apiCalls = <<>>

(***************************************************************************)
(* Properties of the scraper.                                              *)
(***************************************************************************)
\* The url is under a path prefix that the loaded robots.txt disallows.
Disallowed(url) ==
  /\ robots.loaded
  /\ \E rule \in robots.disallow :
       Len(rule) <= Len(url) /\ \A i \in 1..Len(rule) : url[i] = rule[i]

\* C25: fetch and fetch_with_playwright raise ValueError for a url that
\* robots.txt disallows, before any wait of the rate limit and before any
\* request for it, and leave _last_request_time as it was; and no request
\* is ever made for a disallowed url.
C25_Refused ==
  /\ \A i \in 1..Len(fcalls) :
       Disallowed(fcalls[i].url) =>
         /\ fcalls[i].outcome.raised = "ValueError"
         /\ fcalls[i].waited = <<>>
         /\ fcalls[i].requests = 0
         /\ fcalls[i].last_after = fcalls[i].last_before
  /\ \A j \in 1..Len(fetched) : ~Disallowed(fetched[j].url)
  /\ fpc \in {"rate", "request"} => ~Disallowed(fcur.url)

\* A fetch of an allowed url has set _last_request_time, and a
\* fetch_with_playwright of a disallowed url after it was refused.
C25_Witness ==
  /\ Len(fcalls) = 2
  /\ fcalls[1].kind = "fetch" /\ ~Disallowed(fcalls[1].url)
  /\ fcalls[1].last_after > 0
  /\ fcalls[2].kind = "fetch_with_playwright" /\ Disallowed(fcalls[2].url)
  /\ fcalls[2].outcome.raised = "ValueError"
  /\ last_request_time = fcalls[1].last_after
  /\ Len(fetched) = 1

====
